---------------------------- MODULE Spec2Model ----------------------------
(***************************************************************************)
(* Partitionly: rounds of audio exchange kept in a key-value store.        *)
(*                                                                         *)
(* The state is the content of the store (round:<code> and                 *)
(* sesssion:<token> keys), the files under temp/uploads, the fresh values  *)
(* handed out so far, and the request being served with its response.      *)
(* Every HTTP handler is one action: it reads the store, decides, writes   *)
(* the store and the disk, and answers.                                    *)
(*                                                                         *)
(* Participant ids are uuids, compared as strings by sort.Strings; they    *)
(* are modelled as the integers 1..MaxId with their order.  Tokens, round  *)
(* ids and the unique part of file names are uuids whose order never       *)
(* matters; they are drawn from counters.                                  *)
(*                                                                         *)
(* Spec starts from an empty store or from a store that holds one round;   *)
(* SpecChain starts from a store that holds a telephone round under way.   *)
(***************************************************************************)
EXTENDS Integers, Sequences, FiniteSets, TLC

\* ------------------------------------------------------------------ bounds
\* participants of the round the store holds at start: at most MaxPre
MaxPre == 3
\* participants of the telephone round the store holds at start: at most MaxChain
MaxChain == 4
\* rounds created after the start: at most MaxRounds
MaxRounds == 1
\* joins accepted after the start: at most MaxJoins
MaxJoins == 1
\* files written after the start: at most MaxFiles
MaxFiles == 2

\* --------------------------------------------------------------- constants
\* participant ids that can exist
MaxId == MaxChain + MaxRounds + MaxJoins
Ids == 1..MaxId
\* the empty string as a participant id (assignedToId with omitempty)
NoId == 0
\* the request carries no "session" cookie
NoCookie == 0
\* the owner part of a sample's file name: "SAMPLE"
SampleOwner == 0
\* the empty file name (sampleFileId == "")
NoFile == <<-1, 0>>

ModeSample == "sample"
ModeTelephone == "telephone"
Modes == {ModeSample, ModeTelephone}

StateWaiting == "waiting"
StateActive == "active"
StateClosed == "closed"
States == {StateWaiting, StateActive, StateClosed}

\* the join codes generateJoinCode can return (two of the 36^6)
Codes == {"K1", "K2"}
\* display names a request can carry
Names == {"n1", "n2"}

\* the six accepted extensions of the upload handlers
validExts == {".mp3", ".wav", ".m4a", ".flac", ".ogg", ".aac"}
\* extensions as they come with an uploaded file name
ExtInputs == {".mp3", ".WAV", ".txt"}

\* what a store read reports: found, redis.Nil, or another error
ErrNone == "nil"
RedisNil == "redis.Nil"
ErrOther == "error"

VARIABLES
    \* round:<code> keys of the store: code -> Round
    rounds,
    \* sesssion:<token> keys of the store: token -> Session
    sessions,
    \* files on disk: <<round id, file name>>
    files,
    \* participant ids uuid.New() has returned
    minted,
    \* the next fresh token, file disambiguator and round id
    nextToken, nextFile, nextRound,
    \* the request being served and its response ("idle" between requests)
    last,
    \* progress of the README's walk-through on a newly created round
    scen,
    \* the requests being served at the same time, one goroutine each, with what
    \* each has read and built so far (empty where requests are served in turn)
    inflight,
    \* the hours each round key has left before the store drops it, and the hours
    \* since its last save (empty where no time passes)
    expiry

vars == <<rounds, sessions, files, minted, nextToken, nextFile, nextRound, last, scen,
          inflight, expiry>>

\* ------------------------------------------------------------------ helpers
EmptyMap == [x \in {} |-> x]
Put(f, k, v) == [x \in DOMAIN f \cup {k} |-> IF x = k THEN v ELSE f[x]]

\* the hours a saved key lives: 24*time.Hour in every Set of the handlers
RoundTTL == 24

\* no key has a lifetime on record
NoExpiry == [ttl |-> EmptyMap, idle |-> EmptyMap, sess |-> EmptyMap]

NoSession == [participantId |-> NoId, roundCode |-> ""]

Idle == [op |-> "idle", code |-> "", cookie |-> NoCookie, arg |-> "", fault |-> "none",
         status |-> 0, success |-> "none", error |-> "", out |-> <<>>]

\* a request and its answer
Reply(op, code, cookie, arg, fault, status, success, error, out) ==
    [op |-> op, code |-> code, cookie |-> cookie, arg |-> arg, fault |-> fault,
     status |-> status, success |-> success, error |-> error, out |-> out]

\* http.Error(w, msg, status): a plain-text answer, no JSON body
HttpError(op, code, cookie, arg, fault, status, msg) ==
    Reply(op, code, cookie, arg, fault, status, "none", msg, <<>>)

\* {"success": false, "error": msg} with status 200
Refuse(op, code, cookie, arg, fault, msg) ==
    Reply(op, code, cookie, arg, fault, 200, "false", msg, <<>>)

\* {"success": true, ...payload} with status 200
Accept(op, code, cookie, arg, fault, out) ==
    Reply(op, code, cookie, arg, fault, 200, "true", "", out)

\* sort.Strings over a set of ids: the ascending sequence
RECURSIVE sortStrings(_)
sortStrings(S) ==
    IF S = {} THEN <<>>
    ELSE LET m == CHOOSE x \in S : \A y \in S : x <= y
         IN <<m>> \o sortStrings(S \ {m})

\* strings.ToUpper(strings.TrimSpace(code)) on the codes a join request carries
TrimSpace(s) == CASE s = " k1" -> "k1" [] OTHER -> s
ToUpper(s) == CASE s = "k1" -> "K1" [] OTHER -> s
JoinCodeInputs == {" k1", "K2"}

\* --------------------------------------------------------------- the store
\* s.db.Get(ctx, roundKey(code)).Result(): the error it returns
roundGetErr(code, fault) ==
    IF fault = "roundGet" THEN ErrOther
    ELSE IF code \in DOMAIN rounds THEN ErrNone
    ELSE RedisNil

\* variant: the decoded record is returned whether json.Unmarshal failed or not
getSessionUndecoded(cookie, fault) ==
    IF cookie = NoCookie THEN NoSession
    ELSE IF fault = "sessionGet" THEN NoSession
    ELSE IF cookie \in DOMAIN sessions THEN sessions[cookie]
    ELSE NoSession

\* getSession: the stored session of the request's cookie, or none (nil): no
\* cookie, an error of the store's Get (a failure "sessionGet", or redis.Nil for
\* a token with no record, which is also what an expired record gives), or a
\* record json.Unmarshal cannot decode ("sessionDecode")
getSession(cookie, fault) ==
    IF cookie = NoCookie THEN NoSession
    ELSE IF fault = "sessionGet" THEN NoSession
    ELSE IF cookie \notin DOMAIN sessions THEN NoSession
    ELSE IF fault = "sessionDecode" THEN NoSession
    ELSE sessions[cookie]

\* the cookies a client can present: none, or a token that was issued
Cookies == {NoCookie} \cup DOMAIN sessions

Participant(id, name, isHost) == [id |-> id, displayName |-> name, isHost |-> isHost]


\* a submission record; originalName and the time stamps are not modelled
Submission(pid, filename, assignedTo) ==
    [participantId |-> pid, filename |-> filename, assignedToId |-> assignedTo]

\* the Round handleCreateRound builds: state waiting, the host its only
\* participant, no submissions, no sample
NewRound(id, mode, joinCode, hostID, hostName, guest) ==
    [id |-> id, mode |-> mode, joinCode |-> joinCode, state |-> StateWaiting,
     hostId |-> hostID,
     participants |-> Put(EmptyMap, hostID, Participant(hostID, hostName, TRUE)),
     submissions |-> EmptyMap,
     allowGuestDownload |-> guest,
     sampleFileId |-> NoFile]

NewSession(pid, code) == [participantId |-> pid, roundCode |-> code]

\* ------------------------------------------------------- POST /round/create
\* the retry loop leaves with a code for which Exists answered 0; the error of
\* Exists is dropped, so a failed Exists also answers 0
\* variant: the save keeps the participants another request has stored since
\* the round was read
storeRoundMerging(rs, code, blob) ==
    IF code \notin DOMAIN rs THEN Put(rs, code, blob)
    ELSE Put(rs, code,
             [blob EXCEPT
                !.participants =
                   [p \in DOMAIN blob.participants \cup DOMAIN rs[code].participants |->
                      IF p \in DOMAIN blob.participants THEN blob.participants[p]
                      ELSE rs[code].participants[p]]])

\* s.db.Set(ctx, roundKey(code), roundData, 24*time.Hour): the whole blob
\* replaces whatever the key held
storeRound(rs, code, blob) == Put(rs, code, blob)

\* variant: a participant has one session, the new one replaces the earlier ones
storeSessionSingle(ss, token, session) ==
    [t \in {x \in DOMAIN ss : ss[x].participantId # session.participantId} \cup {token}
       |-> IF t = token THEN session ELSE ss[t]]

\* s.db.Set(ctx, sessionKey(sessionToken), sessionData, 24*time.Hour): the new
\* session is one more key of the store
storeSession(ss, token, session) == Put(ss, token, session)

\* uuid.New().String(): an id no participant has had. Which id it is never
\* shows: a round's participants are only put in order once the round is
\* active, and nobody joins an active round.
newUUID ==
    IF Ids \ minted = {} THEN {}
    ELSE {CHOOSE i \in Ids \ minted : \A j \in Ids \ minted : i <= j}

createCodeFree(joinCode, fault) ==
    fault = "exists" \/ joinCode \notin DOMAIN rounds

CreateFaults == {"none", "exists", "roundSet", "sessionSet"}

handleCreateRound(mode, hostName, guest, joinCode, hostID, fault) ==
    /\ last.op = "idle"
    /\ createCodeFree(joinCode, fault)
    /\ hostID \in Ids \ minted
    /\ nextRound <= MaxRounds
    /\ IF fault = "roundSet"
       THEN /\ last' = HttpError("create", joinCode, NoCookie, mode, fault, 500,
                                 "Failed to create round")
            /\ UNCHANGED <<rounds, sessions, minted, nextToken, nextRound>>
       ELSE /\ rounds' = Put(rounds, joinCode,
                             NewRound(nextRound, mode, joinCode, hostID, hostName, guest))
            /\ sessions' = IF fault = "sessionSet" THEN sessions
                           ELSE storeSession(sessions, nextToken, NewSession(hostID, joinCode))
            /\ minted' = minted \cup {hostID}
            /\ nextToken' = nextToken + 1
            /\ nextRound' = nextRound + 1
            /\ last' = Accept("create", joinCode, NoCookie, mode, fault,
                              [code |-> joinCode, roundId |-> nextRound,
                               hostName |-> hostName, token |-> nextToken])
    /\ UNCHANGED <<files, nextFile>>

\* --------------------------------------------------------- POST /round/join
\* variant: a join is accepted whatever the state of the round
joinAcceptsAnyState(round) == round.state \in States

\* the round still accepts participants
joinAccepts(round) == round.state = StateWaiting

\* variant: any session makes the caller a returning participant
joinIsRejoinAnySession(existingSession, code) ==
    existingSession # NoSession /\ code \in Codes

\* the caller's session already belongs to this round
joinIsRejoin(existingSession, code) ==
    existingSession # NoSession /\ existingSession.roundCode = code

\* the id the request joins under: the session's on a rejoin, a new one otherwise
joinParticipantID(existingSession, code, newID) ==
    IF joinIsRejoin(existingSession, code) THEN existingSession.participantId ELSE newID

\* variant: the joiner is stored as a host
joinedRoundAsHost(round, existingSession, code, displayName, newID) ==
    LET participantID == joinParticipantID(existingSession, code, newID)
    IN [round EXCEPT !.participants =
          Put(round.participants, participantID,
              Participant(participantID, displayName, TRUE))]

\* variant: the handler renames a participant it finds and adds nobody
joinedRoundRenameOnly(round, existingSession, code, displayName, newID) ==
    LET participantID == joinParticipantID(existingSession, code, newID)
    IN [round EXCEPT !.participants =
          IF participantID \in DOMAIN round.participants
          THEN [round.participants EXCEPT ![participantID].displayName = displayName]
          ELSE round.participants]

\* the round as the handler has changed it in memory before the save
joinedRound(round, existingSession, code, displayName, newID) ==
    LET participantID == joinParticipantID(existingSession, code, newID)
    IN [round EXCEPT !.participants =
          IF joinIsRejoin(existingSession, code)
          THEN IF participantID \in DOMAIN round.participants
               THEN [round.participants EXCEPT ![participantID].displayName = displayName]
               ELSE round.participants
          ELSE Put(round.participants, newID, Participant(newID, displayName, FALSE))]

JoinFaults == {"none", "roundGet", "sessionGet", "sessionDecode", "roundSet", "sessionSet"}

handleJoinRound(codeIn, displayName, cookie, fault) ==
    LET code == ToUpper(TrimSpace(codeIn))
        err == roundGetErr(code, fault)
    IN
    /\ last.op = "idle"
    /\ IF code = "" \/ displayName = ""
       THEN /\ last' = Refuse("join", code, cookie, displayName, fault,
                              "Code and display name are required")
            /\ UNCHANGED <<rounds, sessions, minted, nextToken>>
       ELSE IF err = RedisNil
       THEN /\ last' = Refuse("join", code, cookie, displayName, fault, "Invalid join code")
            /\ UNCHANGED <<rounds, sessions, minted, nextToken>>
       ELSE IF err # ErrNone
       THEN /\ last' = HttpError("join", code, cookie, displayName, fault, 500,
                                 "Failed to get round")
            /\ UNCHANGED <<rounds, sessions, minted, nextToken>>
       ELSE IF ~joinAccepts(rounds[code])
       THEN /\ last' = Refuse("join", code, cookie, displayName, fault,
                              "This round is no longer accepting particpants")
            /\ UNCHANGED <<rounds, sessions, minted, nextToken>>
       ELSE LET round == rounds[code]
                existingSession == getSession(cookie, fault)
                rejoin == joinIsRejoin(existingSession, code)
            IN
            \E newID \in (IF rejoin THEN {NoId} ELSE newUUID) :
              LET participantID == joinParticipantID(existingSession, code, newID)
              IN
              IF fault = "roundSet"
              THEN /\ last' = HttpError("join", code, cookie, displayName, fault, 500,
                                        "Failed to update round")
                   /\ UNCHANGED <<rounds, sessions, minted, nextToken>>
              ELSE /\ nextToken - nextRound < MaxJoins
                   /\ rounds' = storeRound(rounds, code,
                                           joinedRound(round, existingSession, code,
                                                       displayName, newID))
                   /\ sessions' = IF fault = "sessionSet" THEN sessions
                                  ELSE storeSession(sessions, nextToken,
                                                    NewSession(participantID, code))
                   /\ minted' = IF rejoin THEN minted ELSE minted \cup {newID}
                   /\ nextToken' = nextToken + 1
                   /\ last' = Accept("join", code, cookie, displayName, fault,
                                     [code |-> code, roundId |-> round.id,
                                      participantId |-> participantID,
                                      displayName |-> displayName, token |-> nextToken])
    /\ UNCHANGED <<files, nextFile, nextRound>>

\* ------------------------------------------------- POST /round/{code}/state
\* the target is one of the three states
validState(target) == target \in States

\* variants of the test below: the round is "not found" when the store has no
\* such key; the round is never "not found"
notFoundOnMiss(err) == err = RedisNil
notFoundNever(err) == err # err

\* the test the handler makes on the error of the round's read before it
\* answers "Round not found"
updateStateNotFound(err) == err # RedisNil

\* variant: in a round with guest downloads everybody counts as the host
isHostSessionOrGuestRound(session, round) ==
    session.participantId = round.hostId \/ round.allowGuestDownload

\* variant: every session holder counts as the host
isHostSessionAnyHolder(session, round) == session.participantId # NoId

\* the caller is the round's host
isHostSession(session, round) == session.participantId = round.hostId

StateInputs == States \cup {"paused"}
StateFaults == {"none", "roundGet", "roundSet"}

\* variant: the handler without the session check, the host check and the
\* inverted test on the read
updateStateVerdictOpen(target, session, err, code) ==
    IF ~validState(target) THEN "invalid"
    ELSE IF err # ErrNone THEN "getFailed"
    ELSE "save"

\* the checks of the handler, in the order the code makes them, and the answer
\* each one ends with; "save" when none of them ends the request
updateStateVerdict(target, session, err, code) ==
    IF ~validState(target) THEN "invalid"
    ELSE IF session = NoSession THEN "unauthorized"
    ELSE IF updateStateNotFound(err) THEN "notFound"
    ELSE IF err # ErrNone THEN "getFailed"
    ELSE IF ~isHostSession(session, rounds[code]) THEN "notHost"
    ELSE "save"

handleUpdateState(code, cookie, target, fault) ==
    LET session == getSession(cookie, fault)
        err == roundGetErr(code, fault)
        verdict == updateStateVerdict(target, session, err, code)
    IN
    /\ last.op = "idle"
    /\ CASE verdict = "invalid" ->
              /\ last' = Refuse("state", code, cookie, target, fault, "Invalid state")
              /\ UNCHANGED rounds
         [] verdict = "unauthorized" ->
              /\ last' = HttpError("state", code, cookie, target, fault, 401,
                                   "Unauthorized")
              /\ UNCHANGED rounds
         [] verdict = "notFound" ->
              /\ last' = HttpError("state", code, cookie, target, fault, 404,
                                   "Round not found")
              /\ UNCHANGED rounds
         [] verdict = "getFailed" ->
              /\ last' = HttpError("state", code, cookie, target, fault, 500,
                                   "Failed to get round")
              /\ UNCHANGED rounds
         [] verdict = "notHost" ->
              /\ last' = Refuse("state", code, cookie, target, fault,
                                "Only the host can change the round state")
              /\ UNCHANGED rounds
         [] verdict = "save" /\ fault = "roundSet" ->
              /\ last' = HttpError("state", code, cookie, target, fault, 500,
                                   "Failed to update round")
              /\ UNCHANGED rounds
         [] verdict = "save" /\ fault # "roundSet" ->
              /\ rounds' = [rounds EXCEPT ![code].state = target]
              /\ last' = Accept("state", code, cookie, target, fault,
                                [oldState |-> rounds[code].state, newState |-> target])
    /\ UNCHANGED <<sessions, files, minted, nextToken, nextFile, nextRound>>

\* --------------------------------------------------- GET /round/{code}/info
\* handleRoundInfo asks for no session: any error of the Get is answered 404,
\* a stored round is encoded as it is, with no success field
handleRoundInfo(code, fault) ==
    /\ last.op = "idle"
    /\ IF roundGetErr(code, fault) # ErrNone
       THEN last' = HttpError("info", code, NoCookie, "", fault, 404, "Round not found")
       ELSE last' = Reply("info", code, NoCookie, "", fault, 200, "none", "",
                          [round |-> rounds[code]])
    /\ UNCHANGED <<rounds, sessions, files, minted, nextToken, nextFile, nextRound>>

\* ------------------------------------------------ POST /round/{code}/upload
\* strings.ToLower(filepath.Ext(name)) on the extensions a file can carry
ToLowerExt(ext) == CASE ext = ".WAV" -> ".wav" [] OTHER -> ext

\* variant: uploads are allowed in every state
uploadAllowedAnyState(round) == round.state \in States

\* uploads are only allowed while the round is active
uploadAllowedState(round) == round.state = StateActive

\* variant: uploads do not wait for the host's sample
sampleMissingNever(round) == round.mode = ModeSample /\ round.mode = ModeTelephone

\* sample mode waits for the host's sample
sampleMissing(round) == round.mode = ModeSample /\ round.sampleFileId = NoFile

\* variant: the chain leaves the host out
participantIDsJoiners(round) == sortStrings(DOMAIN round.participants \ {round.hostId})

\* the ascending list of ALL participant ids of the round
participantIDs(round) == sortStrings(DOMAIN round.participants)

\* the 0-based position of id in the list, -1 when it is not there
currentPos(ids, id) ==
    IF \E i \in 1..Len(ids) : ids[i] = id
    THEN (CHOOSE i \in 1..Len(ids) : ids[i] = id) - 1
    ELSE -1

\* the uploader has a successor in the chain
hasNext(pos, n) == pos # -1 /\ pos < n - 1

\* variant: the successor is always the head of the list
nextParticipantIDHead(ids, pos) == ids[1]

\* the successor: the id at position pos+1 (0-based)
nextParticipantID(ids, pos) == ids[(pos + 1) + 1]

\* a replacement keeps the assignment of the submission it replaces
keepsAssignment(isReplacement, oldSubmission) ==
    isReplacement /\ oldSubmission.assignedToId # NoId

\* the assignedToId a telephone upload gets
telephoneAssignedTo(round, pid, isReplacement, oldSubmission) ==
    LET ids == participantIDs(round)
        pos == currentPos(ids, pid)
    IN IF hasNext(pos, Len(ids))
       THEN IF keepsAssignment(isReplacement, oldSubmission)
            THEN oldSubmission.assignedToId
            ELSE nextParticipantID(ids, pos)
       ELSE NoId

\* variant: every participant of the chain sets the starting file
isChainStartAny(pos) == pos # -1

\* the first of the chain sets the starting file
isChainStart(pos) == pos = 0

\* round.sampleFileId after the mode switch of an upload
uploadSampleFileId(round, pid, safeFilename) ==
    IF round.mode = ModeTelephone
       /\ isChainStart(currentPos(participantIDs(round), pid))
    THEN safeFilename
    ELSE round.sampleFileId

\* variant: the submission does not carry its owner
uploadSubmissionAnonymous(round, pid, safeFilename, isReplacement, oldSubmission) ==
    Submission(NoId, safeFilename, NoId)

\* the submission an upload records
uploadSubmission(round, pid, safeFilename, isReplacement, oldSubmission) ==
    Submission(pid, safeFilename,
               IF round.mode = ModeTelephone
               THEN telephoneAssignedTo(round, pid, isReplacement, oldSubmission)
               ELSE NoId)

\* the display name the handler reads for the log line and the answer:
\* round.Participants[AssignedToID].DisplayName faults on a missing participant
assigneeMissing(round, submission) ==
    /\ round.mode = ModeTelephone
    /\ submission.assignedToId # NoId
    /\ submission.assignedToId \notin DOMAIN round.participants

\* the round as the upload handler has changed it in memory before the save
uploadedRound(round, pid, safeFilename) ==
    LET isReplacement == pid \in DOMAIN round.submissions
        oldSubmission == IF isReplacement THEN round.submissions[pid]
                         ELSE Submission(NoId, NoFile, NoId)
    IN [round EXCEPT
          !.sampleFileId = uploadSampleFileId(round, pid, safeFilename),
          !.submissions = Put(round.submissions, pid,
                              uploadSubmission(round, pid, safeFilename,
                                               isReplacement, oldSubmission))]

\* variant: the new file takes the place of the superseded one at once
afterWriteInPlace(fs, fullPath, oldPath) == (fs \ {oldPath}) \cup {fullPath}

\* os.Create(fullPath) and io.Copy: one more file, under a name of its own
afterWrite(fs, fullPath, oldPath) == fs \cup {fullPath}

\* variant: the new file is left where it was written
afterRollbackNone(fs, fullPath, fault) ==
    IF fault \in {"roundSet", "roundSetRemove"} THEN fs \cup {fullPath} ELSE fs

\* the disk after the save has failed: os.Remove(fullPath) takes the new file
\* away again, unless the removal fails too
afterRollback(fs, fullPath, fault) ==
    IF fault = "roundSetRemove" THEN fs \cup {fullPath} ELSE fs \ {fullPath}

\* variant: the superseded file is never removed
afterCleanupNone(fs, oldPath, isReplacement, fault) ==
    fs

\* the disk after the save has succeeded: os.Remove(oldPath) takes the
\* superseded file away; a failure is logged and nothing else
afterCleanup(fs, oldPath, isReplacement, fault) ==
    IF isReplacement /\ fault # "removeOld" THEN fs \ {oldPath} ELSE fs

\* what a request can meet.  "parseForm": ParseMultipartForm(32 << 20) returns an
\* error (a body that is no multipart form).  "over32MiB": the file part is
\* larger than 32 MiB; 32 << 20 is maxMemory, the part of the form kept in
\* memory, the rest goes to temporary files, and no http.MaxBytesReader limits
\* the body: the call returns no error and no branch below looks at the size.
UploadFaults == {"none", "roundGet", "parseForm", "over32MiB", "noFile", "mkdir", "create",
                 "copy", "roundSet", "roundSetRemove", "removeOld"}

handleUpload(code, cookie, ext, fault) ==
    LET session == getSession(cookie, fault)
        err == roundGetErr(code, fault)
        pid == session.participantId
    IN
    /\ last.op = "idle"
    /\ IF session = NoSession
       THEN /\ last' = HttpError("upload", code, cookie, ext, fault, 401, "Unauthorized")
            /\ UNCHANGED <<rounds, files, nextFile>>
       ELSE IF err = RedisNil
       THEN /\ last' = HttpError("upload", code, cookie, ext, fault, 404, "Round not found")
            /\ UNCHANGED <<rounds, files, nextFile>>
       ELSE IF err # ErrNone
       THEN /\ last' = HttpError("upload", code, cookie, ext, fault, 500,
                                 "Failed to get round")
            /\ UNCHANGED <<rounds, files, nextFile>>
       ELSE IF pid \notin DOMAIN rounds[code].participants
       THEN /\ last' = Refuse("upload", code, cookie, ext, fault,
                              "You are not a participant in this round")
            /\ UNCHANGED <<rounds, files, nextFile>>
       ELSE IF ~uploadAllowedState(rounds[code])
       THEN /\ last' = Refuse("upload", code, cookie, ext, fault,
                              "Uploads are only allowed when the round is active")
            /\ UNCHANGED <<rounds, files, nextFile>>
       ELSE IF sampleMissing(rounds[code])
       THEN /\ last' = Refuse("upload", code, cookie, ext, fault,
                              "Waiting for host to upload sample file first")
            /\ UNCHANGED <<rounds, files, nextFile>>
       ELSE IF fault = "parseForm"
       THEN /\ last' = HttpError("upload", code, cookie, ext, fault, 400,
                                 "File too large (max 32MB)")
            /\ UNCHANGED <<rounds, files, nextFile>>
       ELSE IF fault = "noFile"
       THEN /\ last' = Refuse("upload", code, cookie, ext, fault, "No file provided")
            /\ UNCHANGED <<rounds, files, nextFile>>
       ELSE IF ToLowerExt(ext) \notin validExts
       THEN /\ last' = Refuse("upload", code, cookie, ext, fault, "Invalid file type")
            /\ UNCHANGED <<rounds, files, nextFile>>
       ELSE IF fault = "mkdir"
       THEN /\ last' = HttpError("upload", code, cookie, ext, fault, 500,
                                 "Error upon making filepath for upload directory")
            /\ UNCHANGED <<rounds, files, nextFile>>
       ELSE IF fault = "create"
       THEN /\ last' = HttpError("upload", code, cookie, ext, fault, 500,
                                 "Failed to save file")
            /\ UNCHANGED <<rounds, files, nextFile>>
       ELSE LET round == rounds[code]
                isReplacement == pid \in DOMAIN round.submissions
                oldSubmission == IF isReplacement THEN round.submissions[pid]
                                 ELSE Submission(NoId, NoFile, NoId)
                safeFilename == <<pid, nextFile>>
                fullPath == <<round.id, safeFilename>>
                oldPath == <<round.id, oldSubmission.filename>>
                submission == uploadSubmission(round, pid, safeFilename,
                                               isReplacement, oldSubmission)
                updated == [round EXCEPT
                              !.sampleFileId = uploadSampleFileId(round, pid, safeFilename),
                              !.submissions = Put(round.submissions, pid, submission)]
            IN
            /\ nextFile <= MaxFiles
            /\ nextFile' = nextFile + 1
            /\ IF fault = "copy"
               THEN \* the file was created; io.Copy failed; nothing removes it
                    /\ files' = files \cup {fullPath}
                    /\ last' = HttpError("upload", code, cookie, ext, fault, 500,
                                         "Failed to save file")
                    /\ UNCHANGED rounds
               ELSE IF assigneeMissing(round, submission)
               THEN \* nil dereference while logging: the request dies, the file stays
                    /\ files' = files \cup {fullPath}
                    /\ last' = HttpError("upload", code, cookie, ext, fault, 0, "panic")
                    /\ UNCHANGED rounds
               ELSE IF fault = "roundSet"
               THEN \* the new file is written, the save fails, the file is removed
                    /\ files' = afterRollback(files \cup {fullPath}, fullPath, fault)
                    /\ last' = HttpError("upload", code, cookie, ext, fault, 500,
                                         "Failed to update round")
                    /\ UNCHANGED rounds
               ELSE IF fault = "roundSetRemove"
               THEN \* the save fails and so does os.Remove(fullPath)
                    /\ files' = afterRollback(files \cup {fullPath}, fullPath, fault)
                    /\ last' = HttpError("upload", code, cookie, ext, fault, 500,
                                         "Failed to remove fullPath")
                    /\ UNCHANGED rounds
               ELSE /\ rounds' = Put(rounds, code, updated)
                    /\ files' = afterCleanup(files \cup {fullPath}, oldPath,
                                             isReplacement, fault)
                    /\ last' = Accept("upload", code, cookie, ext, fault,
                                      [filename |-> safeFilename,
                                       uploadedBy |-> round.participants[pid].displayName,
                                       isReplacement |-> isReplacement,
                                       assignedTo |->
                                         IF round.mode = ModeTelephone
                                            /\ submission.assignedToId # NoId
                                         THEN round.participants[submission.assignedToId]
                                                .displayName
                                         ELSE ""])
    /\ UNCHANGED <<sessions, minted, nextToken, nextRound>>

\* ----------------------------------------- POST /round/{code}/upload-sample
SampleFaults == {"none", "roundGet", "parseForm", "over32MiB", "noFile", "mkdir", "create",
                 "copy", "roundSet", "roundSetRemove", "removeOld"}

handleUploadSample(code, cookie, ext, fault) ==
    LET session == getSession(cookie, fault)
        err == roundGetErr(code, fault)
    IN
    /\ last.op = "idle"
    /\ IF session = NoSession
       THEN /\ last' = HttpError("sample", code, cookie, ext, fault, 401, "Unauthorized")
            /\ UNCHANGED <<rounds, files, nextFile>>
       ELSE IF err = RedisNil
       THEN /\ last' = HttpError("sample", code, cookie, ext, fault, 404, "Round not found")
            /\ UNCHANGED <<rounds, files, nextFile>>
       ELSE IF err # ErrNone
       THEN /\ last' = HttpError("sample", code, cookie, ext, fault, 500,
                                 "Failed to get round")
            /\ UNCHANGED <<rounds, files, nextFile>>
       ELSE IF ~isHostSession(session, rounds[code])
       THEN /\ last' = Refuse("sample", code, cookie, ext, fault,
                              "Only the host can upload the sample file")
            /\ UNCHANGED <<rounds, files, nextFile>>
       ELSE IF rounds[code].mode # ModeSample
       THEN /\ last' = Refuse("sample", code, cookie, ext, fault,
                              "Sample uploads are only for sample mode rounds")
            /\ UNCHANGED <<rounds, files, nextFile>>
       ELSE IF rounds[code].state # StateWaiting
       THEN /\ last' = Refuse("sample", code, cookie, ext, fault,
                              "Sample can only be uploaded or changed before the round starts")
            /\ UNCHANGED <<rounds, files, nextFile>>
       ELSE IF fault = "parseForm"
       THEN /\ last' = HttpError("sample", code, cookie, ext, fault, 400,
                                 "File too large (max 32MB)")
            /\ UNCHANGED <<rounds, files, nextFile>>
       ELSE IF fault = "noFile"
       THEN /\ last' = Refuse("sample", code, cookie, ext, fault, "No file provided")
            /\ UNCHANGED <<rounds, files, nextFile>>
       ELSE IF ToLowerExt(ext) \notin validExts
       THEN /\ last' = Refuse("sample", code, cookie, ext, fault, "Invalid file type")
            /\ UNCHANGED <<rounds, files, nextFile>>
       ELSE IF fault = "mkdir"
       THEN /\ last' = HttpError("sample", code, cookie, ext, fault, 500,
                                 "Failed to create upload directory")
            /\ UNCHANGED <<rounds, files, nextFile>>
       ELSE IF fault = "create"
       THEN /\ last' = HttpError("sample", code, cookie, ext, fault, 500,
                                 "Failed to save file")
            /\ UNCHANGED <<rounds, files, nextFile>>
       ELSE LET round == rounds[code]
                isReplacement == round.sampleFileId # NoFile
                oldSampleFile == round.sampleFileId
                safeFilename == <<SampleOwner, nextFile>>
                fullPath == <<round.id, safeFilename>>
                oldPath == <<round.id, oldSampleFile>>
            IN
            /\ nextFile <= MaxFiles
            /\ nextFile' = nextFile + 1
            /\ IF fault = "copy"
               THEN /\ files' = files \cup {fullPath}
                    /\ last' = HttpError("sample", code, cookie, ext, fault, 500,
                                         "Failed to save file")
                    /\ UNCHANGED rounds
               ELSE IF fault = "roundSet"
               THEN /\ files' = afterRollback(files \cup {fullPath}, fullPath, fault)
                    /\ last' = HttpError("sample", code, cookie, ext, fault, 500,
                                         "Failed to update round")
                    /\ UNCHANGED rounds
               ELSE IF fault = "roundSetRemove"
               THEN \* the failed removal is only logged
                    /\ files' = afterRollback(files \cup {fullPath}, fullPath, fault)
                    /\ last' = HttpError("sample", code, cookie, ext, fault, 500,
                                         "Failed to update round")
                    /\ UNCHANGED rounds
               ELSE /\ rounds' = [rounds EXCEPT ![code].sampleFileId = safeFilename]
                    /\ files' = afterCleanup(files \cup {fullPath}, oldPath,
                                             isReplacement, fault)
                    /\ last' = Accept("sample", code, cookie, ext, fault,
                                      [filename |-> safeFilename,
                                       isReplacement |-> isReplacement])
    /\ UNCHANGED <<sessions, minted, nextToken, nextRound>>


\* --------------------------------------- GET /round/{code}/download/{filename}
\* the two words the route takes in place of a stored file name
ReqSample == <<-2, 0>>
ReqAssigned == <<-3, 0>>

\* the file names a download request carries: the two words, the names the
\* round's record or directory holds, and a name nobody stored
DownloadInputs(code) ==
    {ReqSample, ReqAssigned, <<MaxId, 0>>}
      \cup (IF code \in DOMAIN rounds
            THEN {f[2] : f \in {g \in files : g[1] = rounds[code].id}}
                   \cup {rounds[code].submissions[q].filename :
                           q \in DOMAIN rounds[code].submissions}
            ELSE {})

\* variant: everybody with a session is let through
downloadAllowedAnyone(round, participantID) ==
    participantID \in Ids \/ round.allowGuestDownload \in BOOLEAN

\* participant, isParticipant := round.Participants[session.ParticipantID];
\* a caller who is none passes only when guest downloads are allowed
downloadAllowed(round, participantID) ==
    participantID \in DOMAIN round.participants \/ round.allowGuestDownload

\* the submissions whose stored file name is the requested one
submissionsNamed(round, requested) ==
    {[file |-> round.submissions[q].filename, name |-> "original"] :
       q \in {x \in DOMAIN round.submissions :
                round.submissions[x].filename = requested}}

\* variant: "assigned" serves the caller's own submission
downloadPicksOwn(round, participantID, requested) ==
    IF round.mode = ModeSample
    THEN IF requested = ReqSample \/ requested = round.sampleFileId
         THEN {[file |-> round.sampleFileId, name |-> "sample.mp3"]}
         ELSE submissionsNamed(round, requested)
    ELSE IF requested = ReqAssigned
         THEN {[file |-> round.submissions[q].filename, name |-> "original"] :
                 q \in {x \in DOMAIN round.submissions : x = participantID}}
         ELSE submissionsNamed(round, requested)

\* the files the switch on round.Mode can pick for the request; none when
\* fileToServe stays "".  The loops range over the map in random order, so two
\* matching submissions give two possible picks.
downloadPicks(round, participantID, requested) ==
    IF round.mode = ModeSample
    THEN IF requested = ReqSample \/ requested = round.sampleFileId
         THEN {[file |-> round.sampleFileId, name |-> "sample.mp3"]}
         ELSE submissionsNamed(round, requested)
    ELSE IF requested = ReqAssigned
         THEN LET assigned ==
                    {[file |-> round.submissions[q].filename, name |-> "original"] :
                       q \in {x \in DOMAIN round.submissions :
                                round.submissions[x].assignedToId = participantID}}
                  ids == sortStrings(DOMAIN round.participants)
              IN IF assigned # {} THEN assigned
                 ELSE IF /\ round.sampleFileId # NoFile
                         /\ Len(ids) > 1
                         /\ ids[2] = participantID
                 THEN {[file |-> round.sampleFileId, name |-> "starting_file.mp3"]}
                 ELSE {}
         ELSE submissionsNamed(round, requested)

DownloadFaults == {"none", "roundGet", "stat"}

handleDownload(code, cookie, requested, fault) ==
    LET session == getSession(cookie, fault)
        err == roundGetErr(code, fault)
        E(status, msg) == HttpError("download", code, cookie, requested, fault, status, msg)
    IN
    /\ last.op = "idle"
    /\ IF session = NoSession
       THEN last' = E(401, "Unauthorized")
       ELSE IF err = RedisNil
       THEN last' = E(404, "Round not found")
       ELSE IF err # ErrNone
       THEN last' = E(500, "Failed to get round")
       ELSE LET round == rounds[code]
                pid == session.participantId
                picks == downloadPicks(round, pid, requested)
            IN IF ~downloadAllowed(round, pid)
               THEN last' = E(403, "You must be a participant to download files")
               ELSE IF round.mode = ModeSample /\ round.sampleFileId = NoFile
                       /\ requested = ReqSample
               THEN last' = E(404, "No sample uploaded yet")
               ELSE IF picks = {}
               THEN last' = E(404, "File not found or not available for download")
               ELSE \E pick \in picks :
                      IF <<round.id, pick.file>> \notin files
                      THEN last' = E(404, "File not found on server")
                      ELSE IF fault = "stat"
                      THEN last' = E(500, "Failed to get file info")
                      ELSE IF pid \in DOMAIN round.participants
                      THEN last' = Reply("download", code, cookie, requested, fault,
                                         200, "none", "",
                                         [file |-> pick.file, name |-> pick.name,
                                          complete |-> TRUE])
                      ELSE \* the file is streamed, then participant.DisplayName
                           \* is read through a nil pointer: the handler dies
                           \* with its answer buffered or sent
                           \E complete \in BOOLEAN :
                             last' = Reply("download", code, cookie, requested, fault,
                                           200, "none", "panic",
                                           [file |-> pick.file, name |-> pick.name,
                                            complete |-> complete])
    /\ UNCHANGED <<rounds, sessions, files, minted, nextToken, nextFile, nextRound>>

\* ------------------------------------------------- GET /round/{code}/export
\* the order of Go's < on the display names
NameRank(name) == CASE name = "n1" -> 1 [] name = "n2" -> 2 [] OTHER -> 0
nameLess(a, b) == NameRank(a) < NameRank(b)

\* nothing to export
exportEmpty(round) == DOMAIN round.submissions = {} /\ round.sampleFileId = NoFile

\* the orders sort.Slice can leave the submissions in: ascending display name of
\* the owner; owners with equal names come in any order (the map is ranged over
\* in random order and the sort is not stable)
exportOrders(round) ==
    LET owners == DOMAIN round.submissions
        n == Cardinality(owners)
    IN {seq \in [1..n -> owners] :
          /\ \A i, j \in 1..n : i # j => seq[i] # seq[j]
          /\ \A i, j \in 1..n :
                i < j => ~nameLess(round.participants[seq[j]].displayName,
                                   round.participants[seq[i]].displayName)}

\* the archive: the sample first, then the submissions with their positional
\* prefix; addFileToZip skips a file that cannot be opened
exportEntries(round, order) ==
    LET onDisk(f) == <<round.id, f>> \in files
        sampleEntry ==
            IF round.sampleFileId # NoFile /\ onDisk(round.sampleFileId)
            THEN <<[prefix |-> 0, name |-> "sample", file |-> round.sampleFileId]>>
            ELSE <<>>
        all == [i \in 1..Len(order) |->
                  [prefix |-> i,
                   name |-> round.participants[order[i]].displayName,
                   file |-> round.submissions[order[i]].filename]]
        present(e) == onDisk(e.file)
    IN sampleEntry \o SelectSeq(all, present)

ExportFaults == {"none", "roundGet"}

handleExport(code, cookie, fault) ==
    LET session == getSession(cookie, fault)
        err == roundGetErr(code, fault)
    IN
    /\ last.op = "idle"
    /\ IF session = NoSession
       THEN last' = HttpError("export", code, cookie, "", fault, 401, "Unauthorized")
       ELSE IF err = RedisNil
       THEN last' = HttpError("export", code, cookie, "", fault, 404, "Round not found")
       ELSE IF err # ErrNone
       THEN last' = HttpError("export", code, cookie, "", fault, 500, "Failed to get round")
       ELSE IF ~isHostSession(session, rounds[code])
       THEN last' = HttpError("export", code, cookie, "", fault, 403,
                              "Only the host can export all files")
       ELSE IF exportEmpty(rounds[code])
       THEN last' = HttpError("export", code, cookie, "", fault, 404, "No files to export")
       ELSE IF \E p \in DOMAIN rounds[code].submissions :
                  p \notin DOMAIN rounds[code].participants
       THEN \* participant.DisplayName on a missing participant: the request dies
            last' = HttpError("export", code, cookie, "", fault, 0, "panic")
       ELSE \E order \in exportOrders(rounds[code]) :
              last' = Reply("export", code, cookie, "", fault, 200, "none", "",
                            [entries |-> exportEntries(rounds[code], order)])
    /\ UNCHANGED <<rounds, sessions, files, minted, nextToken, nextFile, nextRound>>

\* ------------------------------------------------------------ the walk-through
\* README "How It Works": a round is created in sample mode, a participant
\* joins, the host uploads a sample, the host starts the round, the participant
\* uploads, the host closes the round and exports.  scen.step counts the steps
\* of this sequence that have been requested, in order and without a fault, on
\* the round created by step 1; any other request ends the walk-through.
ScenOff == [step |-> 0, code |-> "", pid |-> NoId]

ScenStep(s, l, rs, ss) ==
    LET caller == IF l.cookie \in DOMAIN ss THEN ss[l.cookie].participantId ELSE NoId
        onRound == s.step > 0 /\ l.code = s.code /\ l.fault = "none" /\ s.code \in DOMAIN rs
        byHost == onRound /\ caller = rs[s.code].hostId
    IN
    IF l.op = "create" /\ l.success = "true" /\ l.arg = ModeSample /\ l.fault = "none"
    THEN [step |-> 1, code |-> l.code, pid |-> NoId]
    ELSE IF s.step = 1 /\ onRound /\ l.op = "join" /\ l.success = "true"
            /\ l.out.participantId # rs[s.code].hostId
    THEN [s EXCEPT !.step = 2, !.pid = l.out.participantId]
    ELSE IF s.step = 2 /\ byHost /\ l.op = "sample" /\ l.success = "true"
    THEN [s EXCEPT !.step = 3]
    ELSE IF s.step = 3 /\ byHost /\ l.op = "state" /\ l.arg = StateActive
    THEN [s EXCEPT !.step = 4]
    ELSE IF s.step = 4 /\ onRound /\ l.op = "upload" /\ caller = s.pid
            /\ ToLowerExt(l.arg) \in validExts
    THEN [s EXCEPT !.step = 5]
    ELSE IF s.step = 5 /\ byHost /\ l.op = "state" /\ l.arg = StateClosed
    THEN [s EXCEPT !.step = 6]
    ELSE IF s.step = 6 /\ byHost /\ l.op = "export"
    THEN [s EXCEPT !.step = 7]
    ELSE ScenOff

\* ---------------------------------------------------------------- the system
\* the token, round id and sample file of the round the store holds at start:
\* values no counter hands out again
StoredToken(p) == -p
StoredRoundId == 0
StoredSample == <<SampleOwner, 0>>

\* the display names of the participants the store holds at start
StoredName(p) == IF p = 1 THEN "n2" ELSE "n1"

\* a round as create and join leave it in the store (participants 1..k, one of
\* them the host, no submission), in one of the three states of its life, a
\* sample-mode round with or without the host's sample
StoredRound(k, host, state, mode, guest, hasSample) ==
    [id |-> StoredRoundId, mode |-> mode, joinCode |-> "K1", state |-> state,
     hostId |-> host,
     participants |-> [p \in 1..k |-> Participant(p, StoredName(p), p = host)],
     submissions |-> EmptyMap,
     allowGuestDownload |-> guest,
     sampleFileId |-> IF hasSample THEN StoredSample ELSE NoFile]

\* The server starts on a store that outlives it (initRDB connects to a running
\* Redis): the store is empty, or it holds one round with its sessions.  A
\* round this build creates is waiting and stays so (see updateStateNotFound);
\* the active and closed rounds are rounds the store holds from before.
InitEmpty ==
    /\ rounds = EmptyMap
    /\ sessions = EmptyMap
    /\ files = {}
    /\ minted = {}
    /\ nextToken = 1
    /\ nextFile = 1
    /\ nextRound = 1

InitStored ==
    \E k \in 1..MaxPre, state \in States, mode \in Modes, guest \in {FALSE},
       hasSample \in BOOLEAN :
      \E host \in 1..k :
        /\ hasSample => mode = ModeSample
        /\ rounds = Put(EmptyMap, "K1", StoredRound(k, host, state, mode, guest, hasSample))
        /\ sessions = [t \in {StoredToken(p) : p \in 1..k} |-> NewSession(-t, "K1")]
        /\ files = IF hasSample THEN {<<StoredRoundId, StoredSample>>} ELSE {}
        /\ minted = 1..k
        /\ nextToken = 1
        /\ nextFile = 1
        /\ nextRound = 1

Init ==
    /\ InitEmpty \/ InitStored
    /\ last = Idle
    /\ scen = ScenOff
    /\ inflight = <<>>
    /\ expiry = NoExpiry

\* the store holds a telephone round that is under way
InitChain ==
    /\ \E k \in 1..MaxChain, host \in 1..MaxChain :
         /\ host <= k
         /\ rounds = Put(EmptyMap, "K1",
                         StoredRound(k, host, StateActive, ModeTelephone, FALSE, FALSE))
         /\ sessions = [t \in {StoredToken(p) : p \in 1..k} |-> NewSession(-t, "K1")]
         /\ minted = 1..k
    /\ files = {}
    /\ nextToken = 1
    /\ nextFile = 1
    /\ nextRound = 1
    /\ last = Idle
    /\ scen = ScenOff
    /\ inflight = <<>>
    /\ expiry = NoExpiry

\* the failures of the store and the disk the requests below meet: none, every
\* call of the handlers is answered
NoFaults == {"none"}

\* a file request: every extension without a fault, every fault with a good file
FileRequests(faults) ==
    {<<ext, "none">> : ext \in ExtInputs} \cup {<<".mp3", f>> : f \in faults \ {"none"}}

CreateRound ==
    /\ \E mode \in Modes, hostName \in {"n1"}, guest \in {FALSE}, joinCode \in Codes,
          hostID \in newUUID, fault \in NoFaults :
         handleCreateRound(mode, hostName, guest, joinCode, hostID, fault)
    /\ scen' = ScenStep(scen, last', rounds', sessions')
    /\ UNCHANGED <<inflight, expiry>>

JoinRound ==
    /\ \E codeIn \in JoinCodeInputs, displayName \in Names, cookie \in Cookies,
          fault \in NoFaults :
         handleJoinRound(codeIn, displayName, cookie, fault)
    /\ scen' = ScenStep(scen, last', rounds', sessions')
    /\ UNCHANGED <<inflight, expiry>>

UpdateState ==
    /\ \E code \in Codes, cookie \in Cookies, target \in StateInputs, fault \in NoFaults :
         handleUpdateState(code, cookie, target, fault)
    /\ scen' = ScenStep(scen, last', rounds', sessions')
    /\ UNCHANGED <<inflight, expiry>>

Upload ==
    /\ \E code \in Codes, cookie \in Cookies, r \in FileRequests(NoFaults) :
         handleUpload(code, cookie, r[1], r[2])
    /\ scen' = ScenStep(scen, last', rounds', sessions')
    /\ UNCHANGED <<inflight, expiry>>

UploadSample ==
    /\ \E code \in Codes, cookie \in Cookies, r \in FileRequests(NoFaults) :
         handleUploadSample(code, cookie, r[1], r[2])
    /\ scen' = ScenStep(scen, last', rounds', sessions')
    /\ UNCHANGED <<inflight, expiry>>

Export ==
    /\ \E code \in Codes, cookie \in Cookies, fault \in NoFaults :
         handleExport(code, cookie, fault)
    /\ scen' = ScenStep(scen, last', rounds', sessions')
    /\ UNCHANGED <<inflight, expiry>>

Download ==
    /\ \E code \in Codes, cookie \in Cookies, fault \in NoFaults :
         \E requested \in DownloadInputs(code) :
           handleDownload(code, cookie, requested, fault)
    /\ scen' = ScenStep(scen, last', rounds', sessions')
    /\ UNCHANGED <<inflight, expiry>>

RoundInfo ==
    /\ \E code \in Codes, fault \in NoFaults : handleRoundInfo(code, fault)
    /\ scen' = ScenStep(scen, last', rounds', sessions')
    /\ UNCHANGED <<inflight, expiry>>

\* the handler has returned and the answer is with the client: the next request
\* is served
Done ==
    /\ last.op # "idle"
    /\ last' = Idle
    /\ UNCHANGED <<rounds, sessions, files, minted, nextToken, nextFile, nextRound, scen,
                   inflight, expiry>>

Next ==
    \/ CreateRound
    \/ JoinRound
    \/ UpdateState
    \/ Upload
    \/ UploadSample
    \/ Download
    \/ Export
    \/ RoundInfo
    \/ Done

Spec == Init /\ [][Next]_vars

SpecChain == InitChain /\ [][Next]_vars

\* The file endpoints on a store that holds two rounds: K1 in any state, in
\* either mode and with either value of allowGuestDownload, and K2, a waiting
\* telephone round whose host is no participant of K1.
MaxShare == 3

InitShare ==
    /\ \E k \in 1..MaxShare, state \in States, mode \in Modes, guest \in BOOLEAN,
          hasSample \in BOOLEAN :
         \E host \in 1..k :
           /\ hasSample => mode = ModeSample
           /\ rounds = Put(Put(EmptyMap, "K1",
                               StoredRound(k, host, state, mode, guest, hasSample)),
                           "K2", NewRound(-1, ModeTelephone, "K2", k + 1, "n1", FALSE))
           /\ sessions = [t \in {StoredToken(p) : p \in 1..(k + 1)} |->
                            NewSession(-t, IF -t <= k THEN "K1" ELSE "K2")]
           /\ files = IF hasSample THEN {<<StoredRoundId, StoredSample>>} ELSE {}
           /\ minted = 1..(k + 1)
    /\ nextToken = 1
    /\ nextFile = 1
    /\ nextRound = 1
    /\ last = Idle
    /\ scen = ScenOff
    /\ inflight = <<>>
    /\ expiry = NoExpiry

\* The two upload endpoints on a store and a disk that can fail: every request
\* meets one of the failures of UploadFaults and SampleFaults, or none.
InitFaults ==
    /\ InitStored
    /\ last = Idle
    /\ scen = ScenOff
    /\ inflight = <<>>
    /\ expiry = NoExpiry

UploadFailing ==
    /\ \E code \in Codes, cookie \in Cookies, r \in FileRequests(UploadFaults) :
         handleUpload(code, cookie, r[1], r[2])
    /\ scen' = ScenStep(scen, last', rounds', sessions')
    /\ UNCHANGED <<inflight, expiry>>

UploadSampleFailing ==
    /\ \E code \in Codes, cookie \in Cookies, r \in FileRequests(SampleFaults) :
         handleUploadSample(code, cookie, r[1], r[2])
    /\ scen' = ScenStep(scen, last', rounds', sessions')
    /\ UNCHANGED <<inflight, expiry>>

NextFaults ==
    \/ UploadFailing
    \/ UploadSampleFailing
    \/ Done

SpecFaults == InitFaults /\ [][NextFaults]_vars

NextShare ==
    \/ Upload
    \/ UploadSample
    \/ Download
    \/ Export
    \/ Done

SpecShare == InitShare /\ [][NextShare]_vars

\* ------------------------------------------- requests served at the same time
\* net/http serves every request on a goroutine of its own and the handlers
\* take no lock: between a handler's read of the round, its save and what it
\* does after the save, other handlers run.  A slot of inflight is one such
\* goroutine; budget is the number of requests it still has to serve.
MaxTurns == 2
MaxRacers == 1

NoRound == <<>>

FreeSlot(budget) ==
    [op |-> "idle", pc |-> "idle", code |-> "", cookie |-> NoCookie, arg |-> "",
     base |-> NoRound, blob |-> NoRound, pid |-> NoId, file |-> NoFile, old |-> NoFile,
     order |-> 0, status |-> 0, success |-> "none", error |-> "", token |-> NoCookie,
     budget |-> budget]

canStart(i) == inflight[i].pc \in {"idle", "done"} /\ inflight[i].budget > 0

begin(i, op, code, cookie, arg) ==
    [FreeSlot(inflight[i].budget - 1) EXCEPT
       !.op = op, !.code = code, !.cookie = cookie, !.arg = arg]

answer(slot, status, success, error) ==
    [slot EXCEPT !.pc = "done", !.status = status, !.success = success, !.error = error]

\* the position of the next save among the saves of the requests in flight
saveOrder == 1 + Cardinality({j \in DOMAIN inflight : inflight[j].order > 0})

\* the save of the round, the same in every handler: the blob built in memory
\* goes to the store
saveStep(i, op) ==
    /\ inflight[i].op = op
    /\ inflight[i].pc = "loaded"
    /\ rounds' = storeRound(rounds, inflight[i].code, inflight[i].blob)
    /\ inflight' = [inflight EXCEPT ![i].pc = "saved", ![i].order = saveOrder]
    /\ UNCHANGED <<sessions, files, minted, nextToken, nextFile, nextRound, last, scen, expiry>>

\* the session and the answer of create and join
sessionStep(i, op) ==
    /\ inflight[i].op = op
    /\ inflight[i].pc = "saved"
    /\ sessions' = storeSession(sessions, nextToken,
                                NewSession(inflight[i].pid, inflight[i].code))
    /\ nextToken' = nextToken + 1
    /\ inflight' = [inflight EXCEPT
                      ![i] = [answer(inflight[i], 200, "true", "") EXCEPT
                                !.token = nextToken]]
    /\ UNCHANGED <<rounds, files, minted, nextFile, nextRound, last, scen, expiry>>

\* the removal of the superseded file and the answer of the two uploads
cleanupStep(i, op) ==
    /\ inflight[i].op = op
    /\ inflight[i].pc = "saved"
    /\ files' = afterCleanup(files, <<inflight[i].base.id, inflight[i].old>>,
                             inflight[i].old # NoFile, "none")
    /\ inflight' = [inflight EXCEPT ![i] = answer(inflight[i], 200, "true", "")]
    /\ UNCHANGED <<rounds, sessions, minted, nextToken, nextFile, nextRound, last, scen, expiry>>

\* handleCreateRound up to the save: a join code the store does not hold, the
\* round built in memory
createCheck(i) ==
    \E mode \in Modes, joinCode \in Codes, hostID \in newUUID :
      /\ canStart(i)
      /\ createCodeFree(joinCode, "none")
      /\ inflight' = [inflight EXCEPT
                        ![i] = [begin(i, "create", joinCode, NoCookie, mode) EXCEPT
                                  !.pc = "loaded",
                                  !.blob = NewRound(nextRound, mode, joinCode, hostID,
                                                    "n1", FALSE),
                                  !.pid = hostID]]
      /\ minted' = minted \cup {hostID}
      /\ nextRound' = nextRound + 1
      /\ UNCHANGED <<rounds, sessions, files, nextToken, nextFile, last, scen, expiry>>

createSave(i) == saveStep(i, "create")

createFinish(i) == sessionStep(i, "create")

\* handleJoinRound up to the save: the round and the session are read, the
\* participant is added or renamed in memory
joinLoad(i) ==
    \E codeIn \in JoinCodeInputs, displayName \in Names, cookie \in Cookies :
      LET code == ToUpper(TrimSpace(codeIn))
          err == roundGetErr(code, "none")
          req == begin(i, "join", code, cookie, displayName)
      IN
      /\ canStart(i)
      /\ IF err = RedisNil
         THEN /\ inflight' = [inflight EXCEPT
                                ![i] = answer(req, 200, "false", "Invalid join code")]
              /\ UNCHANGED minted
         ELSE IF ~joinAccepts(rounds[code])
         THEN /\ inflight' = [inflight EXCEPT
                                ![i] = answer(req, 200, "false",
                                              "This round is no longer accepting particpants")]
              /\ UNCHANGED minted
         ELSE LET round == rounds[code]
                  existingSession == getSession(cookie, "none")
                  rejoin == joinIsRejoin(existingSession, code)
              IN \E newID \in (IF rejoin THEN {NoId} ELSE newUUID) :
                   /\ inflight' =
                        [inflight EXCEPT
                           ![i] = [req EXCEPT
                                     !.pc = "loaded",
                                     !.base = round,
                                     !.blob = joinedRound(round, existingSession, code,
                                                          displayName, newID),
                                     !.pid = joinParticipantID(existingSession, code,
                                                               newID)]]
                   /\ minted' = IF rejoin THEN minted ELSE minted \cup {newID}
      /\ UNCHANGED <<rounds, sessions, files, nextToken, nextFile, nextRound, last, scen, expiry>>

joinSave(i) == saveStep(i, "join")

joinFinish(i) == sessionStep(i, "join")

\* handleUpload up to the save: the session and the round are read, the new
\* file is written, the submission is recorded in memory
uploadWrite(i) ==
    \E code \in Codes, cookie \in Cookies, ext \in ExtInputs :
      LET session == getSession(cookie, "none")
          err == roundGetErr(code, "none")
          pid == session.participantId
          req == begin(i, "upload", code, cookie, ext)
          refused(status, success, msg) ==
              /\ inflight' = [inflight EXCEPT ![i] = answer(req, status, success, msg)]
              /\ UNCHANGED <<files, nextFile>>
      IN
      /\ canStart(i)
      /\ IF session = NoSession THEN refused(401, "none", "Unauthorized")
         ELSE IF err = RedisNil THEN refused(404, "none", "Round not found")
         ELSE IF pid \notin DOMAIN rounds[code].participants
         THEN refused(200, "false", "You are not a participant in this round")
         ELSE IF ~uploadAllowedState(rounds[code])
         THEN refused(200, "false", "Uploads are only allowed when the round is active")
         ELSE IF sampleMissing(rounds[code])
         THEN refused(200, "false", "Waiting for host to upload sample file first")
         ELSE IF ToLowerExt(ext) \notin validExts
         THEN refused(200, "false", "Invalid file type")
         ELSE LET round == rounds[code]
                  safeFilename == <<pid, nextFile>>
                  old == IF pid \in DOMAIN round.submissions
                         THEN round.submissions[pid].filename ELSE NoFile
                  blob == uploadedRound(round, pid, safeFilename)
              IN
              /\ files' = afterWrite(files, <<round.id, safeFilename>>, <<round.id, old>>)
              /\ nextFile' = nextFile + 1
              /\ inflight' =
                   [inflight EXCEPT
                      ![i] = IF assigneeMissing(round, blob.submissions[pid])
                             THEN answer(req, 0, "none", "panic")
                             ELSE [req EXCEPT !.pc = "loaded", !.base = round,
                                              !.blob = blob, !.pid = pid,
                                              !.file = safeFilename, !.old = old]]
      /\ UNCHANGED <<rounds, sessions, minted, nextToken, nextRound, last, scen, expiry>>

uploadSave(i) == saveStep(i, "upload")

uploadFinish(i) == cleanupStep(i, "upload")

\* handleUploadSample up to the save
sampleWrite(i) ==
    \E code \in Codes, cookie \in Cookies, ext \in ExtInputs :
      LET session == getSession(cookie, "none")
          err == roundGetErr(code, "none")
          req == begin(i, "sample", code, cookie, ext)
          refused(status, success, msg) ==
              /\ inflight' = [inflight EXCEPT ![i] = answer(req, status, success, msg)]
              /\ UNCHANGED <<files, nextFile>>
      IN
      /\ canStart(i)
      /\ IF session = NoSession THEN refused(401, "none", "Unauthorized")
         ELSE IF err = RedisNil THEN refused(404, "none", "Round not found")
         ELSE IF ~isHostSession(session, rounds[code])
         THEN refused(200, "false", "Only the host can upload the sample file")
         ELSE IF rounds[code].mode # ModeSample
         THEN refused(200, "false", "Sample uploads are only for sample mode rounds")
         ELSE IF rounds[code].state # StateWaiting
         THEN refused(200, "false",
                      "Sample can only be uploaded or changed before the round starts")
         ELSE IF ToLowerExt(ext) \notin validExts
         THEN refused(200, "false", "Invalid file type")
         ELSE LET round == rounds[code]
                  safeFilename == <<SampleOwner, nextFile>>
                  old == round.sampleFileId
              IN
              /\ files' = afterWrite(files, <<round.id, safeFilename>>, <<round.id, old>>)
              /\ nextFile' = nextFile + 1
              /\ inflight' =
                   [inflight EXCEPT
                      ![i] = [req EXCEPT !.pc = "loaded", !.base = round,
                                         !.blob = [round EXCEPT
                                                     !.sampleFileId = safeFilename],
                                         !.pid = session.participantId,
                                         !.file = safeFilename, !.old = old]]
      /\ UNCHANGED <<rounds, sessions, minted, nextToken, nextRound, last, scen, expiry>>

sampleSave(i) == saveStep(i, "sample")

sampleFinish(i) == cleanupStep(i, "sample")

\* handleUpdateState: the session and the round are read and the request is
\* answered; the save follows the read only when the verdict is "save"
stateRequest(i) ==
    \E code \in Codes, cookie \in Cookies, target \in {StateActive, "paused"} :
      LET session == getSession(cookie, "none")
          err == roundGetErr(code, "none")
          verdict == updateStateVerdict(target, session, err, code)
          req == begin(i, "state", code, cookie, target)
      IN
      /\ canStart(i)
      /\ IF verdict = "save"
         THEN /\ rounds' = storeRound(rounds, code, [rounds[code] EXCEPT !.state = target])
              /\ inflight' = [inflight EXCEPT ![i] = answer(req, 200, "true", "")]
         ELSE /\ inflight' =
                   [inflight EXCEPT
                      ![i] = CASE verdict = "invalid" ->
                                    answer(req, 200, "false", "Invalid state")
                               [] verdict = "unauthorized" ->
                                    answer(req, 401, "none", "Unauthorized")
                               [] verdict = "notFound" ->
                                    answer(req, 404, "none", "Round not found")
                               [] verdict = "getFailed" ->
                                    answer(req, 500, "none", "Failed to get round")
                               [] OTHER ->
                                    answer(req, 200, "false",
                                           "Only the host can change the round state")]
              /\ UNCHANGED rounds
      /\ UNCHANGED <<sessions, files, minted, nextToken, nextFile, nextRound, last, scen, expiry>>

\* one request at a time, served step by step, on a store that holds a round
InitSteps ==
    /\ InitStored
    /\ last = Idle
    /\ scen = ScenOff
    /\ inflight = [i \in {1} |-> FreeSlot(MaxTurns)]
    /\ expiry = NoExpiry

\* two requests at a time, on an empty store or on one that holds a round
InitRace ==
    /\ InitEmpty \/ InitStored
    /\ last = Idle
    /\ scen = ScenOff
    /\ inflight = [i \in {1, 2} |-> FreeSlot(MaxRacers)]
    /\ expiry = NoExpiry

\* every step is taken by any of the goroutines
CreateCheck == \E i \in DOMAIN inflight : createCheck(i)
CreateSave == \E i \in DOMAIN inflight : createSave(i)
CreateFinish == \E i \in DOMAIN inflight : createFinish(i)
JoinLoad == \E i \in DOMAIN inflight : joinLoad(i)
JoinSave == \E i \in DOMAIN inflight : joinSave(i)
JoinFinish == \E i \in DOMAIN inflight : joinFinish(i)
UploadWrite == \E i \in DOMAIN inflight : uploadWrite(i)
UploadSave == \E i \in DOMAIN inflight : uploadSave(i)
UploadFinish == \E i \in DOMAIN inflight : uploadFinish(i)
SampleWrite == \E i \in DOMAIN inflight : sampleWrite(i)
SampleSave == \E i \in DOMAIN inflight : sampleSave(i)
SampleFinish == \E i \in DOMAIN inflight : sampleFinish(i)
StateRequest == \E i \in DOMAIN inflight : stateRequest(i)

NextSteps ==
    \/ CreateCheck
    \/ CreateSave
    \/ CreateFinish
    \/ JoinLoad
    \/ JoinSave
    \/ JoinFinish
    \/ UploadWrite
    \/ UploadSave
    \/ UploadFinish
    \/ SampleWrite
    \/ SampleSave
    \/ SampleFinish
    \/ StateRequest

SpecSteps == InitSteps /\ [][NextSteps]_vars

SpecRace == InitRace /\ [][NextSteps]_vars

\* ------------------------------------------- the code loop of handleCreateRound
\* for { joinCode = generateJoinCode(); exists, _ := Exists(joinCode);
\*       if exists == 0 { break } }
\* Every turn of the loop is a step: a code is drawn and tested.  The error of
\* Exists is dropped, so a failing Exists ("exists") counts as a free code.
ExistsFaults == {"none", "exists"}

\* the request is at the head of the loop: it has just come in, or its last
\* code was in use
atLoopHead(i) ==
    \/ canStart(i)
    \/ inflight[i].op = "create" /\ inflight[i].pc = "looping"

\* the request as it stands at the head of the loop
loopRequest(i, mode) ==
    IF inflight[i].pc = "looping" THEN inflight[i]
    ELSE begin(i, "create", "", NoCookie, mode)

\* a turn of the loop whose code is in use: the loop goes round
createRetry(i) ==
    \E mode \in Modes, joinCode \in Codes :
      /\ atLoopHead(i)
      /\ ~createCodeFree(joinCode, "none")
      /\ inflight' = [inflight EXCEPT
                        ![i] = [loopRequest(i, mode) EXCEPT
                                  !.pc = "looping", !.code = joinCode]]
      /\ UNCHANGED <<rounds, sessions, files, minted, nextToken, nextFile, nextRound,
                     last, scen, expiry>>

\* a turn of the loop whose test finds no round (or fails): break, and the
\* round is built in memory
createLeave(i, faults) ==
    \E mode \in Modes, joinCode \in Codes, fault \in faults, hostID \in newUUID :
      /\ atLoopHead(i)
      /\ createCodeFree(joinCode, fault)
      /\ inflight' = [inflight EXCEPT
                        ![i] = [loopRequest(i, mode) EXCEPT
                                  !.pc = "loaded", !.code = joinCode,
                                  !.blob = NewRound(nextRound, loopRequest(i, mode).arg,
                                                    joinCode, hostID, "n1", FALSE),
                                  !.pid = hostID]]
      /\ minted' = minted \cup {hostID}
      /\ nextRound' = nextRound + 1
      /\ UNCHANGED <<rounds, sessions, files, nextToken, nextFile, last, scen, expiry>>

CreateRetry == \E i \in DOMAIN inflight : createRetry(i)
CreateLeave == \E i \in DOMAIN inflight : createLeave(i, ExistsFaults)

\* the store is empty, holds a round under one of the codes, or holds a round
\* under every code; two creates at a time
InitCodes ==
    /\ \/ InitEmpty
       \/ InitStored
       \/ /\ \E mode \in Modes :
               rounds = Put(Put(EmptyMap, "K1",
                                StoredRound(1, 1, StateWaiting, mode, FALSE, FALSE)),
                            "K2", NewRound(-1, ModeTelephone, "K2", 2, "n1", FALSE))
          /\ sessions = [t \in {StoredToken(p) : p \in 1..2} |->
                           NewSession(-t, IF -t = 1 THEN "K1" ELSE "K2")]
          /\ files = {}
          /\ minted = 1..2
          /\ nextToken = 1
          /\ nextFile = 1
          /\ nextRound = 1
    /\ last = Idle
    /\ scen = ScenOff
    /\ inflight = [i \in {1, 2} |-> FreeSlot(MaxRacers)]
    /\ expiry = NoExpiry

NextCodes ==
    \/ CreateRetry
    \/ CreateLeave
    \/ CreateSave
    \/ CreateFinish

\* crypto/rand draws every code with the same chance at every turn, so a loop
\* that can draw a free code again and again does draw one; a handler that has
\* left the loop goes on to its save and its answer
FairCodes ==
    \A i \in {1, 2} :
       /\ SF_vars(inflight[i].pc = "looping" /\ createLeave(i, {"none"}))
       /\ WF_vars(createSave(i))
       /\ WF_vars(createFinish(i))

SpecCodes == InitCodes /\ [][NextCodes]_vars /\ FairCodes

\* ------------------------------------------------------------ generateJoinCode
\* const charset = "ABCDEFGHIJKLMNOPQRSTUVWXYZ0123456789", a character a place
charset == <<"A", "B", "C", "D", "E", "F", "G", "H", "I", "J", "K", "L", "M", "N", "O",
             "P", "Q", "R", "S", "T", "U", "V", "W", "X", "Y", "Z", "0", "1", "2", "3",
             "4", "5", "6", "7", "8", "9">>

\* b := make([]byte, 6)
CodeLen == 6

\* the values a random byte takes here: the ends of the range of a byte and the
\* values next to the length of charset
ByteInputs == {0, 35, 36, 255}

\* variant: the byte indexes charset as it is; past the end there is no character
codeCharUnreduced(byte) == IF byte < Len(charset) THEN charset[byte + 1] ELSE ""

\* charset[b[i]%byte(len(charset))]
codeChar(byte) == charset[(byte % Len(charset)) + 1]

\* the buffer after rand.Read(b): read bytes are random; when Read reports an
\* error after read < 6 bytes the rest is as make left it, zero
randRead(drawn, read) == [i \in 1..CodeLen |-> IF i <= read THEN drawn[i] ELSE 0]

generateJoinCode(drawn, read) ==
    [i \in 1..CodeLen |-> codeChar(randRead(drawn, read)[i])]

\* a call of generateJoinCode is to come: the bytes the random source holds and
\* the number of bytes it delivers before it fails (all of them: no failure)
InitJoinCode ==
    /\ InitEmpty
    /\ \E drawn \in [1..CodeLen -> ByteInputs], read \in 0..CodeLen :
         last = [Idle EXCEPT !.arg = drawn,
                             !.fault = IF read = CodeLen THEN "none" ELSE "randRead",
                             !.status = read]
    /\ scen = ScenOff
    /\ inflight = <<>>
    /\ expiry = NoExpiry

GenerateJoinCode ==
    /\ last.op = "idle"
    /\ last' = [last EXCEPT !.op = "generateJoinCode",
                            !.out = generateJoinCode(last.arg, last.status)]
    /\ UNCHANGED <<rounds, sessions, files, minted, nextToken, nextFile, nextRound,
                   scen, inflight, expiry>>

NextJoinCode == GenerateJoinCode

SpecJoinCode == InitJoinCode /\ [][NextJoinCode]_vars

\* two uploads at a time on an active round in which one participant has
\* uploaded before: the store names that submission, its file is on disk
InitUploads ==
    /\ \E k \in 2..MaxPre, mode \in Modes :
         \E host \in 1..k, earlier \in 1..k :
           /\ rounds = Put(EmptyMap, "K1",
                           uploadedRound(StoredRound(k, host, StateActive, mode, FALSE,
                                                     mode = ModeSample),
                                         earlier, <<earlier, 0>>))
           /\ sessions = [t \in {StoredToken(p) : p \in 1..k} |-> NewSession(-t, "K1")]
           /\ files = {<<StoredRoundId, <<earlier, 0>> >>}
                        \cup (IF mode = ModeSample
                              THEN {<<StoredRoundId, StoredSample>>} ELSE {})
           /\ minted = 1..k
    /\ nextToken = 1
    /\ nextFile = 1
    /\ nextRound = 1
    /\ last = Idle
    /\ scen = ScenOff
    /\ inflight = [i \in {1, 2} |-> FreeSlot(MaxRacers)]
    /\ expiry = NoExpiry

NextUploads ==
    \/ UploadWrite
    \/ UploadSave
    \/ UploadFinish

SpecUploads == InitUploads /\ [][NextUploads]_vars

\* Create and join on a store whose writes and reads can fail: every request
\* meets one of the failures of CreateFaults and JoinFaults, or none.  A client
\* may present any token it was handed, stored or not.
CreateRoundFailing ==
    /\ \E mode \in Modes, hostName \in {"n1"}, guest \in {FALSE}, joinCode \in Codes,
          hostID \in newUUID, fault \in CreateFaults :
         handleCreateRound(mode, hostName, guest, joinCode, hostID, fault)
    /\ scen' = ScenStep(scen, last', rounds', sessions')
    /\ UNCHANGED <<inflight, expiry>>

JoinRoundFailing ==
    /\ \E codeIn \in JoinCodeInputs, displayName \in Names,
          cookie \in Cookies \cup 1..(nextToken - 1), fault \in JoinFaults :
         handleJoinRound(codeIn, displayName, cookie, fault)
    /\ scen' = ScenStep(scen, last', rounds', sessions')
    /\ UNCHANGED <<inflight, expiry>>

NextSessions ==
    \/ CreateRoundFailing
    \/ JoinRoundFailing
    \/ Done

SpecSessions == Init /\ [][NextSessions]_vars

\* ------------------------------------------------- the lifetime of the keys
\* Every Set of the handlers passes an expiration, and the store drops a key
\* when it runs out.  Time passes in steps of RoundTTL / TicksPerTTL hours.
TicksPerTTL == 3
TickHours == RoundTTL \div TicksPerTTL
Lifetimes == {TickHours * n : n \in 1..TicksPerTTL}

\* a Set that keeps the time the key has left (the store's KEEPTTL)
setTTLKeep(op, remaining) == IF remaining > 0 THEN remaining ELSE RoundTTL

\* the expiration the handler of op passes with the round: 24*time.Hour in
\* create, join, state change, upload and sample upload alike
setTTL(op, remaining) == RoundTTL

\* the expiration create and join pass with the session record
sessionTTL == RoundTTL

\* the requests that end with a save of the round
SavingOps == {"create", "join", "state", "upload", "sample"}

\* the round key the answered request l saved: its handler answers success
\* exactly when its Set went through
savedBy(l) == IF l.op \in SavingOps /\ l.success = "true" THEN {l.code} ELSE {}

\* the lifetimes after the request with answer l, which issued the tokens in
\* issued: a saved round key starts a new lifetime, a new session record too
afterRequest(x, l, issued) ==
    [ttl  |-> [c \in DOMAIN x.ttl \cup savedBy(l) |->
                 IF c \in savedBy(l)
                   THEN setTTL(l.op, IF c \in DOMAIN x.ttl THEN x.ttl[c] ELSE 0)
                   ELSE x.ttl[c]],
     idle |-> [c \in DOMAIN x.idle \cup savedBy(l) |->
                 IF c \in savedBy(l) THEN 0 ELSE x.idle[c]],
     sess |-> [t \in DOMAIN x.sess \cup issued |->
                 IF t \in issued THEN sessionTTL ELSE x.sess[t]]]

\* the keys whose time has run out after one more step of time
expired(remaining) == {k \in DOMAIN remaining : remaining[k] <= TickHours}

\* one step of time between two requests: the store drops the keys that have
\* run out; the files on disk stay
Tick ==
    /\ last.op = "idle"
    /\ \E c \in DOMAIN expiry.idle : expiry.idle[c] < RoundTTL
    /\ rounds' = [c \in DOMAIN rounds \ expired(expiry.ttl) |-> rounds[c]]
    /\ sessions' = [t \in DOMAIN sessions \ expired(expiry.sess) |-> sessions[t]]
    /\ expiry' = [ttl  |-> [c \in DOMAIN expiry.ttl \ expired(expiry.ttl) |->
                              expiry.ttl[c] - TickHours],
                  idle |-> [c \in DOMAIN expiry.idle |->
                              IF expiry.idle[c] + TickHours >= RoundTTL
                                THEN RoundTTL ELSE expiry.idle[c] + TickHours],
                  sess |-> [t \in DOMAIN expiry.sess \ expired(expiry.sess) |->
                              expiry.sess[t] - TickHours]]
    /\ UNCHANGED <<files, minted, nextToken, nextFile, nextRound, last, scen, inflight>>

\* the tokens the step hands out
issuedTokens == nextToken..(nextToken' - 1)

CreateRoundTimed ==
    /\ \E mode \in Modes, joinCode \in Codes, hostID \in newUUID :
         handleCreateRound(mode, "n1", FALSE, joinCode, hostID, "none")
    /\ scen' = ScenStep(scen, last', rounds', sessions')
    /\ expiry' = afterRequest(expiry, last', issuedTokens)
    /\ UNCHANGED inflight

JoinRoundTimed ==
    /\ \E codeIn \in JoinCodeInputs, cookie \in Cookies :
         handleJoinRound(codeIn, "n1", cookie, "none")
    /\ scen' = ScenStep(scen, last', rounds', sessions')
    /\ expiry' = afterRequest(expiry, last', issuedTokens)
    /\ UNCHANGED inflight

UpdateStateTimed ==
    /\ \E code \in Codes, cookie \in Cookies, target \in States :
         handleUpdateState(code, cookie, target, "none")
    /\ scen' = ScenStep(scen, last', rounds', sessions')
    /\ expiry' = afterRequest(expiry, last', issuedTokens)
    /\ UNCHANGED inflight

UploadTimed ==
    /\ \E code \in Codes, cookie \in Cookies :
         handleUpload(code, cookie, ".mp3", "none")
    /\ scen' = ScenStep(scen, last', rounds', sessions')
    /\ expiry' = afterRequest(expiry, last', issuedTokens)
    /\ UNCHANGED inflight

UploadSampleTimed ==
    /\ \E code \in Codes, cookie \in Cookies :
         handleUploadSample(code, cookie, ".mp3", "none")
    /\ scen' = ScenStep(scen, last', rounds', sessions')
    /\ expiry' = afterRequest(expiry, last', issuedTokens)
    /\ UNCHANGED inflight

\* the store holds one round of any state that was saved some hours ago, with
\* the sessions of its participants, which are no younger than that save
InitExpiry ==
    /\ \E k \in 1..2, state \in States, mode \in Modes, left \in Lifetimes,
          sleft \in Lifetimes :
         /\ sleft <= left
         /\ rounds = Put(EmptyMap, "K1", StoredRound(k, 1, state, mode, FALSE, FALSE))
         /\ sessions = [t \in {StoredToken(p) : p \in 1..k} |-> NewSession(-t, "K1")]
         /\ minted = 1..k
         /\ expiry = [ttl  |-> Put(EmptyMap, "K1", left),
                      idle |-> Put(EmptyMap, "K1", RoundTTL - left),
                      sess |-> [t \in {StoredToken(p) : p \in 1..k} |-> sleft]]
    /\ files = {}
    /\ nextToken = 1
    /\ nextFile = 1
    /\ nextRound = 1
    /\ last = Idle
    /\ scen = ScenOff
    /\ inflight = <<>>

NextExpiry ==
    \/ CreateRoundTimed
    \/ JoinRoundTimed
    \/ UpdateStateTimed
    \/ UploadTimed
    \/ UploadSampleTimed
    \/ Tick
    \/ Done

SpecExpiry == InitExpiry /\ [][NextExpiry]_vars

\* ---------------------------------------------------------------- properties
\* the order of the states
StateRank(st) == CASE st = StateWaiting -> 0 [] st = StateActive -> 1 [] OTHER -> 2

\* the participant the cookie of the answered request stands for, NoId if none
lastCaller == IF last.cookie \in DOMAIN sessions
              THEN sessions[last.cookie].participantId ELSE NoId

\* the answered request named a stored round and came from its host
lastByHost == /\ last.code \in DOMAIN rounds
              /\ lastCaller # NoId
              /\ lastCaller = rounds[last.code].hostId

\* the answered request was an accepted upload to a telephone round
lastTelephoneUpload ==
    /\ last.op = "upload"
    /\ last.success = "true"
    /\ rounds[last.code].mode = ModeTelephone

\* a request of this kind is being answered by this step
Served(op) == last.op = "idle" /\ last'.op = op

\* this step accepts an upload to a telephone round
TelephoneUploadStep ==
    /\ Served("upload")
    /\ last'.success = "true"
    /\ rounds[last'.code].mode = ModeTelephone

\* C1: a state request by the host of a stored round with one of the three
\* states as target, the store answering, saves the round with that state and
\* is answered success with the old and the new state.
C1_HostStateChangeIsSaved ==
    (/\ last.op = "state"
     /\ last.fault = "none"
     /\ validState(last.arg)
     /\ lastByHost)
    => /\ last.success = "true"
       /\ last.out.newState = last.arg
       /\ rounds[last.code].state = last.arg

\* C2: in the walk-through from a newly created sample-mode round (a
\* participant joins, the host uploads a sample, the host sets the state to
\* active, the participant uploads, the host sets the state to closed and
\* exports) the stored round is active once the host has asked for it, holds the
\* participant's submission once it was uploaded, is closed once the host has
\* asked for it, and the export is served.
C2_WalkThrough ==
    /\ scen.step \in {4, 5} => rounds[scen.code].state = StateActive
    /\ scen.step >= 5 => scen.pid \in DOMAIN rounds[scen.code].submissions
    /\ scen.step >= 6 => rounds[scen.code].state = StateClosed
    /\ scen.step = 7 => (last.op = "export" /\ last.status = 200)

\* C3: the stored state of a round never moves backward in the order
\* waiting < active < closed, and a closed round stays closed.
C3_StateNeverMovesBack ==
    [][\A c \in DOMAIN rounds :
          (c \in DOMAIN rounds' /\ rounds'[c].id = rounds[c].id)
          => /\ StateRank(rounds'[c].state) >= StateRank(rounds[c].state)
             /\ rounds[c].state = StateClosed => rounds'[c].state = StateClosed]_vars

\* C3 witness: the host of a stored round that is active or closed has asked
\* for an earlier state and has been answered
C3_Witness ==
    /\ last.op = "state"
    /\ validState(last.arg)
    /\ lastByHost
    /\ StateRank(last.arg) < StateRank(rounds[last.code].state)

\* C4: a state request without a valid session, or with the session of a
\* participant who is not the round's host, leaves every stored round as it was.
C4_OnlyHostChangesState ==
    [][(/\ Served("state")
        /\ \/ last'.cookie \notin DOMAIN sessions
           \/ last'.code \notin DOMAIN rounds
           \/ sessions[last'.cookie].participantId # rounds[last'.code].hostId)
       => rounds' = rounds]_vars

\* C4 witness: a participant who is not the host has asked for a state change
\* of the stored round with a valid target and has been answered
C4_Witness ==
    /\ last.op = "state"
    /\ validState(last.arg)
    /\ last.code \in DOMAIN rounds
    /\ lastCaller \in DOMAIN rounds[last.code].participants
    /\ ~lastByHost
    /\ rounds[last.code].state # last.arg

\* C5: a join request for a round that is active or closed is answered
\* success:false and changes nothing: the round is not written and no session
\* is issued.
C5_JoinRefusedUnlessWaiting ==
    [][(/\ Served("join")
        /\ last'.code \in DOMAIN rounds
        /\ rounds[last'.code].state \in {StateActive, StateClosed})
       => /\ last'.success = "false"
          /\ last'.out = <<>>
          /\ rounds' = rounds
          /\ sessions' = sessions
          /\ nextToken' = nextToken]_vars

\* C5 witness: a join request with a name for a stored round that is active or
\* closed has been answered
C5_Witness ==
    /\ last.op = "join"
    /\ last.arg \in Names
    /\ last.code \in DOMAIN rounds
    /\ rounds[last.code].state \in {StateActive, StateClosed}

\* C6 (as stated): an upload is recorded only if the caller has a valid
\* session, is a participant of the round, the round is active, a sample-mode
\* round has its sample, and the extension of the file is literally one of
\* .mp3 .wav .m4a .flac .ogg .aac; otherwise no file is written and the round
\* is unchanged.
C6_UploadOnlyWhenAllowedLiteral ==
    [][Served("upload") =>
         LET code == last'.code
             cookie == last'.cookie
             allowed == /\ cookie \in DOMAIN sessions
                        /\ code \in DOMAIN rounds
                        /\ sessions[cookie].participantId
                             \in DOMAIN rounds[code].participants
                        /\ rounds[code].state = StateActive
                        /\ rounds[code].mode = ModeSample
                             => rounds[code].sampleFileId # NoFile
                        /\ last'.arg \in validExts
         IN /\ last'.success = "true" => allowed
            /\ ~allowed => (files' = files /\ rounds' = rounds)]_vars

\* C6 (amended): as above, with the extension compared after lower-casing it.
C6_UploadOnlyWhenAllowed ==
    [][Served("upload") =>
         LET code == last'.code
             cookie == last'.cookie
             allowed == /\ cookie \in DOMAIN sessions
                        /\ code \in DOMAIN rounds
                        /\ sessions[cookie].participantId
                             \in DOMAIN rounds[code].participants
                        /\ rounds[code].state = StateActive
                        /\ rounds[code].mode = ModeSample
                             => rounds[code].sampleFileId # NoFile
                        /\ ToLowerExt(last'.arg) \in validExts
         IN /\ last'.success = "true" => allowed
            /\ ~allowed => (files' = files /\ rounds' = rounds)]_vars

\* C6 witness: an upload of a file with an upper-case extension has been
\* recorded
C6_Witness ==
    /\ last.op = "upload"
    /\ last.success = "true"
    /\ last.arg \notin validExts
    /\ <<rounds[last.code].id, last.out.filename>> \in files
    /\ rounds[last.code].submissions[lastCaller].filename = last.out.filename

\* C7: in a telephone round every stored submission is assigned to the next
\* participant id in ascending order, the submission of the last participant
\* is assigned to nobody, and no two submissions are assigned to the same
\* participant.
C7_TelephoneChain ==
    \A c \in DOMAIN rounds :
      rounds[c].mode = ModeTelephone =>
        LET P == DOMAIN rounds[c].participants
            subs == rounds[c].submissions
            after(p) == {q \in P : q > p}
            succ(p) == IF after(p) = {} THEN NoId
                       ELSE CHOOSE q \in after(p) : \A x \in after(p) : q <= x
        IN /\ \A p \in DOMAIN subs : subs[p].assignedToId = succ(p)
           /\ \A p, q \in DOMAIN subs :
                (p # q /\ subs[p].assignedToId # NoId)
                => subs[p].assignedToId # subs[q].assignedToId

\* C7 witness: a telephone round of three or more participants holds the
\* submission of its last participant and the submission of another one
C7_Witness ==
    \E c \in DOMAIN rounds :
      LET P == DOMAIN rounds[c].participants
          subs == rounds[c].submissions
      IN /\ rounds[c].mode = ModeTelephone
         /\ Cardinality(P) >= 3
         /\ \E p, q \in DOMAIN subs :
              /\ p < q
              /\ \A x \in P : x <= q
              /\ subs[p].assignedToId # NoId
              /\ subs[q].assignedToId = NoId

\* C8: an accepted upload to a telephone round makes the new file the round's
\* sampleFileId when the uploader has the smallest participant id, and leaves
\* sampleFileId as it was otherwise.
C8_FirstSetsSample ==
    [][TelephoneUploadStep =>
         LET c == last'.code
             u == sessions[last'.cookie].participantId
             first == \A q \in DOMAIN rounds[c].participants : u <= q
         IN IF first
            THEN rounds'[c].sampleFileId = last'.out.filename
            ELSE /\ rounds'[c].sampleFileId = rounds[c].sampleFileId
                 /\ rounds'[c].sampleFileId # last'.out.filename]_vars

\* C8 witness: a participant who is not the first has uploaded after the first
\* one did, and the first one's file is still the starting file
C8_Witness ==
    /\ lastTelephoneUpload
    /\ rounds[last.code].sampleFileId # NoFile
    /\ rounds[last.code].sampleFileId # last.out.filename
    /\ \E q \in DOMAIN rounds[last.code].submissions :
         /\ q < lastCaller
         /\ rounds[last.code].submissions[q].filename = rounds[last.code].sampleFileId

\* C9 (as stated): in a telephone round of the host H and three further
\* participants a1 < b2 < c3, wherever H's id falls, the upload of a1 sets
\* sampleFileId and is assigned to b2, the upload of b2 is assigned to c3, and
\* the upload of c3 is assigned to nobody.
C9_JoinersChain ==
    [][(TelephoneUploadStep
        /\ Cardinality(DOMAIN rounds[last'.code].participants) = 4) =>
         LET c == last'.code
             u == sessions[last'.cookie].participantId
             J == DOMAIN rounds[c].participants \ {rounds[c].hostId}
             a1 == CHOOSE x \in J : \A y \in J : x <= y
             c3 == CHOOSE x \in J : \A y \in J : y <= x
             b2 == CHOOSE x \in J : x # a1 /\ x # c3
             given == rounds'[c].submissions[u].assignedToId
         IN /\ u = a1 => (rounds'[c].sampleFileId = last'.out.filename /\ given = b2)
            /\ u = b2 => given = c3
            /\ u = c3 => given = NoId]_vars

\* C9 (amended): the chain runs over all four ids, H's included.  The upload of
\* a1 sets sampleFileId only when a1 < H, and is assigned to H when
\* a1 < H < b2 and to b2 otherwise; the upload of b2 is assigned to H when
\* b2 < H < c3 and to c3 otherwise; the upload of c3 is assigned to H when
\* c3 < H and to nobody otherwise.
C9_ChainWithHost ==
    [][(TelephoneUploadStep
        /\ Cardinality(DOMAIN rounds[last'.code].participants) = 4) =>
         LET c == last'.code
             u == sessions[last'.cookie].participantId
             H == rounds[c].hostId
             J == DOMAIN rounds[c].participants \ {H}
             a1 == CHOOSE x \in J : \A y \in J : x <= y
             c3 == CHOOSE x \in J : \A y \in J : y <= x
             b2 == CHOOSE x \in J : x # a1 /\ x # c3
             given == rounds'[c].submissions[u].assignedToId
         IN /\ u = a1 =>
                 /\ (rounds'[c].sampleFileId = last'.out.filename) <=> (a1 < H)
                 /\ given = IF a1 < H /\ H < b2 THEN H ELSE b2
            /\ u = b2 => given = IF b2 < H /\ H < c3 THEN H ELSE c3
            /\ u = c3 => given = IF c3 < H THEN H ELSE NoId]_vars

\* C9 witness: in a telephone round of four, a participant who is not the host
\* has uploaded and the upload is assigned to the host
C9_Witness ==
    /\ lastTelephoneUpload
    /\ Cardinality(DOMAIN rounds[last.code].participants) = 4
    /\ ~lastByHost
    /\ rounds[last.code].submissions[lastCaller].assignedToId = rounds[last.code].hostId

\* C10: when a participant who already has a stored submission uploads again
\* in a telephone round, the new submission is assigned to whom the replaced
\* one was assigned, also when that was nobody.
C10_ReplacementKeepsAssignment ==
    [][(TelephoneUploadStep
        /\ sessions[last'.cookie].participantId
             \in DOMAIN rounds[last'.code].submissions) =>
         LET c == last'.code
             u == sessions[last'.cookie].participantId
         IN rounds'[c].submissions[u].assignedToId
              = rounds[c].submissions[u].assignedToId]_vars

\* C10 witness: the last participant of a telephone round of two or more has
\* replaced a submission, which is assigned to nobody
C10_Witness ==
    /\ lastTelephoneUpload
    /\ last.out.isReplacement
    /\ Cardinality(DOMAIN rounds[last.code].participants) >= 2
    /\ rounds[last.code].submissions[lastCaller].assignedToId = NoId

\* C19: an accepted join of a caller without a session for this round's code
\* adds exactly one participant, with a fresh id, the requested name and isHost
\* false; an accepted join of a caller whose session carries this round's code
\* adds nobody and changes only that participant's displayName, to the
\* requested name.
C19_JoinAddsOneOrRenames ==
    [][(Served("join") /\ last'.success = "true") =>
         LET code == last'.code
             cookie == last'.cookie
             old == rounds[code]
             P == DOMAIN old.participants
             returning == /\ cookie \in DOMAIN sessions
                          /\ sessions[cookie].roundCode = code
         IN IF returning
            THEN LET pid == sessions[cookie].participantId
                 IN /\ pid \in P
                    /\ rounds'[code] =
                         [old EXCEPT !.participants[pid].displayName = last'.arg]
            ELSE \E n \in Ids \ (P \cup minted) :
                   rounds'[code] =
                     [old EXCEPT !.participants =
                        Put(old.participants, n, Participant(n, last'.arg, FALSE))]]_vars

\* C19 witness: a participant of a round of two or more has joined it again
\* under another name
C19_Witness ==
    /\ last.op = "join"
    /\ last.success = "true"
    /\ last.cookie \in DOMAIN sessions
    /\ sessions[last.cookie].roundCode = last.code
    /\ Cardinality(DOMAIN rounds[last.code].participants) >= 2
    /\ rounds[last.code].participants[lastCaller].displayName = last.arg
    /\ last.arg # StoredName(lastCaller)
    /\ lastCaller <= MaxPre

\* C20: an accepted create or join stores a session under a token that was
\* never issued before, and every session stored before stays as it was.
C20_FreshTokenKeepsOthers ==
    [][((Served("join") \/ Served("create")) /\ last'.success = "true") =>
         LET token == last'.out.token
         IN /\ token \notin DOMAIN sessions
            /\ token >= nextToken
            /\ token \in DOMAIN sessions'
            /\ sessions'[token].roundCode = last'.code
            /\ \A t \in DOMAIN sessions :
                 t \in DOMAIN sessions' /\ sessions'[t] = sessions[t]]_vars

\* C20 witness: a caller who holds a token for a round has joined that round
\* again; both the earlier and the new token resolve to that participant
C20_Witness ==
    /\ last.op = "join"
    /\ last.success = "true"
    /\ last.cookie \in DOMAIN sessions
    /\ last.cookie # last.out.token
    /\ sessions[last.cookie] = sessions[last.out.token]

\* the answered request named a stored round and came from a caller who is no
\* participant of it: no session, or a session of somebody else
lastByOutsider ==
    /\ last.code \in DOMAIN rounds
    /\ lastCaller \notin DOMAIN rounds[last.code].participants

\* C16: a download request by a caller who is no participant of the round gets
\* file content only if the round allows guest downloads; when it does not, the
\* request is rejected (401 without a session, 403 with one) and carries no
\* file content.
C16_GuestDownloadOnlyIfAllowed ==
    (last.op = "download" /\ lastByOutsider) =>
       /\ last.out # <<>> => rounds[last.code].allowGuestDownload
       /\ ~rounds[last.code].allowGuestDownload =>
            /\ last.out = <<>>
            /\ last.status = (IF lastCaller = NoId THEN 401 ELSE 403)

\* C16 witness: a caller with a session of another round was sent a file of a
\* round that allows guest downloads
C16_Witness ==
    /\ last.op = "download"
    /\ lastByOutsider
    /\ lastCaller # NoId
    /\ rounds[last.code].allowGuestDownload
    /\ last.out # <<>>
    /\ <<rounds[last.code].id, last.out.file>> \in files

\* C17: an export request on a stored round returns an archive only to the
\* round's host; a caller without a session is answered 401 and every other
\* caller with a session 403, whatever allowGuestDownload and the state are.
C17_ExportHostOnly ==
    (last.op = "export" /\ last.code \in DOMAIN rounds) =>
       /\ last.out # <<>> => lastByHost
       /\ lastCaller = NoId => last.status = 401
       /\ (lastCaller # NoId /\ ~lastByHost) => last.status = 403

\* C17 witness: a participant who is not the host asked for the export of a
\* closed round that allows guest downloads and holds a file, and was refused
C17_Witness ==
    /\ last.op = "export"
    /\ last.code \in DOMAIN rounds
    /\ lastCaller \in DOMAIN rounds[last.code].participants
    /\ ~lastByHost
    /\ rounds[last.code].allowGuestDownload
    /\ rounds[last.code].state = StateClosed
    /\ ~exportEmpty(rounds[last.code])
    /\ last.status = 403

\* C18: the archive an export answers with is the only one the stored round
\* and the files on disk allow: every order the sort of the submissions can
\* end in gives the entries, names and positional prefixes that were answered,
\* also when two owners have the same display name.
C18_ExportOrderDetermined ==
    (last.op = "export" /\ last.status = 200) =>
       \A order \in exportOrders(rounds[last.code]) :
          exportEntries(rounds[last.code], order) = last.out.entries

\* this step answers an upload or a sample upload that wrote its file and then
\* met a failing save of the round
SaveFailedStep ==
    /\ Served("upload") \/ Served("sample")
    /\ last'.fault \in {"roundSet", "roundSetRemove"}
    /\ nextFile' # nextFile

\* C13: when the save of the round fails during an upload or a sample upload,
\* the answer is HTTP 500, the stored round is unchanged, every file that was
\* on disk stays, and the new file is gone again unless its removal failed;
\* with a failed removal the answer is an internal error all the same.
C13_SaveFailureRollsBack ==
    [][SaveFailedStep =>
         /\ last'.status = 500
         /\ rounds' = rounds
         /\ files \subseteq files'
         /\ last'.fault = "roundSet" => files' = files]_vars

\* C13 witness: a replacement upload met a failing save; the earlier file of
\* the participant is on disk and the round names it
C13_Witness ==
    /\ last.op = "upload"
    /\ last.fault = "roundSet"
    /\ last.status = 500
    /\ nextFile = 3
    /\ lastCaller \in DOMAIN rounds[last.code].submissions
    /\ files = {<<rounds[last.code].id, rounds[last.code].submissions[lastCaller].filename>>}

\* this step accepts an upload of a participant who had a submission
ReplacementStep ==
    /\ Served("upload")
    /\ last'.success = "true"
    /\ last'.out.isReplacement

\* C15 as stated: after an accepted replacement upload the file of the earlier
\* submission is gone from the round's directory and the new file is there.
C15_OldFileGone ==
    [][ReplacementStep =>
         LET c == last'.code
             u == sessions[last'.cookie].participantId
         IN /\ <<rounds[c].id, rounds[c].submissions[u].filename>> \notin files'
            /\ <<rounds[c].id, last'.out.filename>> \in files']_vars

\* C15: after an accepted replacement upload the new file is in the round's
\* directory and the round names it; the file of the earlier submission is gone
\* unless its removal failed, which the request does not report.
C15_OldFileGoneUnlessRemoveFails ==
    [][ReplacementStep =>
         LET c == last'.code
             u == sessions[last'.cookie].participantId
             old == <<rounds[c].id, rounds[c].submissions[u].filename>>
         IN /\ <<rounds[c].id, last'.out.filename>> \in files'
            /\ rounds'[c].submissions[u].filename = last'.out.filename
            /\ last'.fault # "removeOld" => old \notin files'
            /\ old \in files' => old \in files]_vars

\* C15 witness: an accepted replacement upload has left only the new file
C15_Witness ==
    /\ last.op = "upload"
    /\ last.success = "true"
    /\ last.out.isReplacement
    /\ last.fault = "none"
    /\ files = {<<rounds[last.code].id, last.out.filename>>}

\* the request in the slot is a join that adds a participant
addsParticipant(i) ==
    /\ inflight[i].op = "join"
    /\ inflight[i].pid \notin DOMAIN inflight[i].base.participants

\* two requests in flight, a join that adds a participant and another such join
\* or another mutation, were both accepted, changed the same round, and read it
\* before either had saved; a is the one that saved first
Clobbered(a, b) ==
    /\ a # b
    /\ inflight[a].pc = "done" /\ inflight[a].success = "true"
    /\ inflight[b].pc = "done" /\ inflight[b].success = "true"
    /\ inflight[a].op \in {"upload", "sample"} \/ addsParticipant(a)
    /\ inflight[b].op \in {"upload", "sample"} \/ addsParticipant(b)
    /\ inflight[a].op = "join" \/ inflight[b].op = "join"
    /\ inflight[a].code = inflight[b].code
    /\ inflight[a].base = inflight[b].base
    /\ inflight[a].order < inflight[b].order

\* the change a request made to the round
changeOf(i, round) ==
    CASE inflight[i].op = "join" ->
           /\ inflight[i].pid \in DOMAIN round.participants
           /\ round.participants[inflight[i].pid].displayName = inflight[i].arg
      [] inflight[i].op = "sample" -> round.sampleFileId = inflight[i].file
      [] OTHER -> /\ inflight[i].pid \in DOMAIN round.submissions
                  /\ round.submissions[inflight[i].pid].filename = inflight[i].file

\* C11: when a join that adds a participant and another such join, or another
\* mutation of the same round, both read the round before either saves, both
\* are answered success, each join has its session, and the stored round is the
\* blob of the later save: it holds the later request's change and not the
\* earlier one's.
C11_LostUpdate ==
    \A a, b \in DOMAIN inflight :
       Clobbered(a, b) =>
          /\ rounds[inflight[b].code] = inflight[b].blob
          /\ changeOf(b, rounds[inflight[b].code])
          /\ ~changeOf(a, rounds[inflight[a].code])
          /\ \A i \in {a, b} :
                inflight[i].op = "join" =>
                   /\ inflight[i].token \in DOMAIN sessions
                   /\ sessions[inflight[i].token] =
                        NewSession(inflight[i].pid, inflight[i].code)

\* C11 witness: two new participants joined the same waiting round at the same
\* time; both have a session, the stored round holds only one of them
C11_Witness ==
    \E a, b \in DOMAIN inflight :
       /\ Clobbered(a, b)
       /\ inflight[a].op = "join" /\ inflight[b].op = "join"
       /\ inflight[a].pid # inflight[b].pid
       /\ inflight[a].token \in DOMAIN sessions
       /\ inflight[b].token \in DOMAIN sessions
       /\ inflight[a].pid \notin DOMAIN rounds[inflight[a].code].participants
       /\ inflight[b].pid \in DOMAIN rounds[inflight[b].code].participants

\* C12: the round a create has saved under its join code stays the record of
\* that code: no other create stores a round over it.
C12_CreateNeverOverwrites ==
    \A i \in DOMAIN inflight :
       (inflight[i].op = "create" /\ inflight[i].pc \in {"saved", "done"}) =>
          rounds[inflight[i].code].id = inflight[i].blob.id

\* the files the stored rounds name
namedFiles ==
    UNION {{<<rounds[c].id, rounds[c].submissions[p].filename>> :
              p \in DOMAIN rounds[c].submissions}
             \cup (IF rounds[c].sampleFileId # NoFile
                   THEN {<<rounds[c].id, rounds[c].sampleFileId>>} ELSE {})
           : c \in DOMAIN rounds}

\* C14: while one request runs alone, every file a stored round names is on
\* disk, and a replacement that has not saved the round yet still has the
\* superseded file on disk next to the new one.
C14_WriteSaveDelete ==
    /\ namedFiles \subseteq files
    /\ \A i \in DOMAIN inflight :
          (inflight[i].op \in {"upload", "sample"} /\ inflight[i].pc = "loaded"
             /\ inflight[i].old # NoFile) =>
            /\ <<inflight[i].base.id, inflight[i].old>> \in files
            /\ <<inflight[i].base.id, inflight[i].file>> \in files

\* C14 witness: a replacement has saved the round and not yet removed the
\* superseded file: both files are on disk and the round names the new one
C14_Witness ==
    \E i \in DOMAIN inflight :
       /\ inflight[i].op = "upload"
       /\ inflight[i].pc = "saved"
       /\ inflight[i].old # NoFile
       /\ <<inflight[i].base.id, inflight[i].old>> \in files
       /\ rounds[inflight[i].code].submissions[inflight[i].pid].filename = inflight[i].file

\* this step answers a create or a join that saved its round, minted a token
\* and then failed to store the session
SessionLostStep ==
    /\ Served("create") \/ Served("join")
    /\ last'.fault = "sessionSet"
    /\ nextToken' # nextToken

\* C21: when the session cannot be stored after the round of a create or join
\* has been saved, the request answers success and hands out the token, the
\* stored round holds the new participant (the host of a create, the joiner a
\* join has added), and no session is stored under the token.
C21_SessionFailureIsNotFatal ==
    [][SessionLostStep =>
         /\ last'.status = 200
         /\ last'.success = "true"
         /\ last'.out.token = nextToken
         /\ last'.out.token \notin DOMAIN sessions'
         /\ sessions' = sessions
         /\ last'.code \in DOMAIN rounds'
         /\ IF last'.op = "join"
            THEN last'.out.participantId \notin minted =>
                   /\ last'.out.participantId \in DOMAIN rounds'[last'.code].participants
                   /\ rounds'[last'.code].participants[last'.out.participantId].displayName
                        = last'.arg
            ELSE /\ rounds'[last'.code].id = last'.out.roundId
                 /\ rounds'[last'.code].hostId \in DOMAIN rounds'[last'.code].participants]_vars

\* C21 witness: a new participant joined, the session was not stored: the
\* round holds the participant, the token answered is no key of the sessions
C21_Witness ==
    /\ last.op = "join"
    /\ last.fault = "sessionSet"
    /\ last.success = "true"
    /\ last.cookie = NoCookie
    /\ last.out.participantId \in DOMAIN rounds[last.code].participants
    /\ last.out.token \notin DOMAIN sessions

\* the round has one host among its participants, the one hostId names
oneHost(round) ==
    /\ round.hostId \in DOMAIN round.participants
    /\ \A p \in DOMAIN round.participants :
          /\ round.participants[p].id = p
          /\ round.participants[p].isHost <=> p = round.hostId

\* C22: with requests served at the same time, every stored round has exactly
\* one participant with isHost true, the one hostId names, and is stored under
\* its joinCode; as long as a key holds the same round (the same id), its
\* hostId, joinCode and mode do not change.
C22_OneHostFixedIdentity ==
    [][/\ \A c \in DOMAIN rounds : oneHost(rounds[c]) /\ rounds[c].joinCode = c
       /\ \A c \in DOMAIN rounds' : oneHost(rounds'[c]) /\ rounds'[c].joinCode = c
       /\ \A c \in DOMAIN rounds :
             /\ c \in DOMAIN rounds'
             /\ rounds'[c].id = rounds[c].id =>
                  /\ rounds'[c].hostId = rounds[c].hostId
                  /\ rounds'[c].mode = rounds[c].mode]_vars

\* C22 witness: a round created while the server runs has been joined
C22_Witness ==
    \E c \in DOMAIN rounds :
       /\ rounds[c].id >= 1
       /\ Cardinality(DOMAIN rounds[c].participants) >= 2
       /\ \E i \in DOMAIN inflight : inflight[i].op = "join" /\ inflight[i].pc = "done"

\* C23: in every stored round the submissions are keyed by participant id (one
\* entry per id), each entry carries the id it is stored under, and each key
\* is a participant of the round.
C23_SubmissionsKeyedByParticipant ==
    \A c \in DOMAIN rounds :
       /\ DOMAIN rounds[c].submissions \subseteq DOMAIN rounds[c].participants
       /\ \A p \in DOMAIN rounds[c].submissions :
             rounds[c].submissions[p].participantId = p

\* C23 witness: two participants of a round uploaded at the same time and the
\* stored round holds a submission
C23_Witness ==
    \E a, b \in DOMAIN inflight :
       /\ a # b
       /\ inflight[a].op = "upload" /\ inflight[a].success = "true"
       /\ inflight[b].op = "upload" /\ inflight[b].success = "true"
       /\ inflight[a].pid # inflight[b].pid
       /\ inflight[a].code = inflight[b].code
       /\ inflight[b].pid \in DOMAIN rounds[inflight[b].code].submissions

C25_ExpiresAfterIdleDay ==
    \A c \in DOMAIN expiry.idle :
      /\ c \in DOMAIN rounds <=> expiry.idle[c] < RoundTTL
      /\ c \in DOMAIN rounds =>
           /\ c \in DOMAIN expiry.ttl
           /\ expiry.ttl[c] = RoundTTL - expiry.idle[c]

\* C25 witness: hours after another round was created, an upload has just saved
\* a round and its lifetime is the full 24 hours again, while the other round
\* has less left
C25_Witness ==
    /\ last.op = "upload"
    /\ last.success = "true"
    /\ last.code \in DOMAIN expiry.ttl
    /\ expiry.ttl[last.code] = RoundTTL
    /\ \E c \in DOMAIN rounds \ {last.code} :
         /\ rounds[c].id # StoredRoundId
         /\ expiry.idle[c] > 0

\* C26: an upload by a caller who has a valid session but whose participant id
\* is not a key of the round's participants is answered with HTTP 401, like an
\* upload without a session.
C26_UploadByNonParticipantIs401 ==
    (/\ last.op = "upload"
     /\ last.fault = "none"
     /\ last.code \in DOMAIN rounds
     /\ last.cookie \in DOMAIN sessions
     /\ sessions[last.cookie].participantId \notin DOMAIN rounds[last.code].participants)
    => last.status = 401

\* C27: an upload or sample upload whose payload is larger than 32 MiB is
\* rejected: no file is written to the round's upload directory and the stored
\* round is unchanged.
C27_OversizeRejected ==
    [][((Served("upload") \/ Served("sample")) /\ last'.fault = "over32MiB")
       => /\ last'.success # "true"
          /\ files' = files
          /\ rounds' = rounds]_vars

\* the requests that name a round by its join code
CodeOps == {"join", "state", "upload", "sample", "download", "export", "info"}

\* C28: every request that names a join code under which no live round is
\* stored (join, state change, upload, sample upload, download, export, info) is
\* answered with HTTP 404 and changes nothing in the store or on disk.
C28_UnknownCodeIs404 ==
    [][(/\ last.op = "idle"
        /\ last'.op \in CodeOps
        /\ last'.code \notin DOMAIN rounds)
       => /\ last'.status = 404
          /\ rounds' = rounds
          /\ sessions' = sessions
          /\ files' = files]_vars

\* the failures a session lookup can meet, and the tokens a request can carry:
\* none, a token of a stored session, a token that was issued by this server
SessionFaults == {"none", "sessionGet", "sessionDecode"}
TokensSeen == {NoCookie} \cup DOMAIN sessions \cup 1..(nextToken - 1)

\* C29: resolving a request's session yields the stored session or none: no
\* cookie, a token with no stored record (never stored, or expired), a store
\* failure and an undecodable record all yield none; a stored record yields
\* the participant id and round code it was issued with, at its issue and at
\* every later request.
C29_SessionOrNone ==
    [][/\ \A cookie \in TokensSeen, fault \in SessionFaults :
            LET resolved == getSession(cookie, fault)
            IN /\ (\/ cookie = NoCookie
                   \/ cookie \notin DOMAIN sessions
                   \/ fault # "none") => resolved = NoSession
               /\ (cookie \in DOMAIN sessions /\ fault = "none") =>
                    /\ resolved = sessions[cookie]
                    /\ cookie \in DOMAIN sessions'
                    /\ sessions'[cookie] = resolved
       /\ ((Served("join") \/ Served("create"))
             /\ nextToken' # nextToken /\ last'.fault # "sessionSet") =>
            /\ nextToken \in DOMAIN sessions'
            /\ sessions'[nextToken].roundCode = last'.code
            /\ sessions'[nextToken].participantId =
                 (IF last'.op = "join" THEN last'.out.participantId
                  ELSE rounds'[last'.code].hostId)]_vars

\* C29 witness: a join came with the token of a stored session of that round
\* whose record could not be decoded; the caller was treated as having no
\* session and joined as a new participant
C29_Witness ==
    /\ last.op = "join"
    /\ last.fault = "sessionDecode"
    /\ last.success = "true"
    /\ last.cookie \in DOMAIN sessions
    /\ sessions[last.cookie].roundCode = last.code
    /\ last.out.participantId # sessions[last.cookie].participantId

\* every request in flight has been answered
allAnswered == \A i \in DOMAIN inflight : inflight[i].pc \in {"idle", "done"}

\* C30: after any interleaving of uploads by the participants of one round,
\* every filename the stored round references (each submission's filename and
\* sampleFileId) names a file that is present in the round's upload directory.
C30_ReferencedFilesPresent ==
    allAnswered => namedFiles \subseteq files

\* C31: after any join that answers success, the participant id in the session
\* it issued is a key of the participants of the round stored by that join, also
\* when the caller presented an older session of the same round code whose
\* participant id is not in the loaded round.
C31_IssuedSessionNamesParticipant ==
    [][(Served("join") /\ last'.success = "true" /\ last'.out.token \in DOMAIN sessions')
       => sessions'[last'.out.token].participantId
            \in DOMAIN rounds'[last'.code].participants]_vars

\* this step is the save of a sample upload on code c that the round's host
\* sent and that read the round in state waiting
hostSampleSave(c) ==
    \E i \in DOMAIN inflight :
       /\ inflight[i].op = "sample"
       /\ inflight[i].code = c
       /\ inflight[i].pc = "loaded"
       /\ inflight'[i].pc = "saved"
       /\ inflight[i].base.state = StateWaiting
       /\ inflight[i].pid = inflight[i].base.hostId

\* C32: in a sample-mode round, sampleFileId is changed only by a sample upload
\* from the host that read the round in state waiting; while the stored state
\* is active or closed no request changes it.
C32_SampleOnlyByHostWhileWaiting ==
    [][\A c \in DOMAIN rounds \cap DOMAIN rounds' :
          (/\ rounds'[c].id = rounds[c].id
           /\ rounds[c].mode = ModeSample
           /\ rounds'[c].sampleFileId # rounds[c].sampleFileId)
          => /\ hostSampleSave(c)
             /\ rounds[c].state = StateWaiting]_vars

\* C33: a sample-mode round that is active or closed while sampleFileId is empty
\* records no submission and gets no sample for as long as it is not waiting:
\* uploads are refused for lack of a sample, sample uploads because of the
\* state.
C33_NoSampleNoSubmission ==
    [][\A c \in DOMAIN rounds \cap DOMAIN rounds' :
          (/\ rounds'[c].id = rounds[c].id
           /\ rounds[c].mode = ModeSample
           /\ rounds[c].state # StateWaiting
           /\ rounds[c].sampleFileId = NoFile)
          => /\ rounds'[c].submissions = rounds[c].submissions
             /\ rounds'[c].sampleFileId = NoFile
             /\ rounds'[c].state = rounds[c].state
             /\ \A i \in DOMAIN inflight :
                  (inflight[i].pc # "done" /\ inflight'[i].pc = "done"
                     /\ inflight'[i].code = c /\ inflight'[i].op \in {"upload", "sample"})
                  => inflight'[i].success # "true"]_vars

\* C33 witness: a participant's upload to an active sample-mode round without a
\* sample was refused for lack of the sample, and the round has no submission
C33_Witness ==
    \E i \in DOMAIN inflight :
       /\ inflight[i].op = "upload"
       /\ inflight[i].pc = "done"
       /\ inflight[i].error = "Waiting for host to upload sample file first"
       /\ inflight[i].code \in DOMAIN rounds
       /\ rounds[inflight[i].code].state = StateActive
       /\ rounds[inflight[i].code].submissions = EmptyMap

\* the answered request was a download of "assigned" by a participant of a
\* stored telephone round
lastAssignedDownload ==
    /\ last.op = "download"
    /\ last.arg = ReqAssigned
    /\ last.fault = "none"
    /\ last.code \in DOMAIN rounds
    /\ rounds[last.code].mode = ModeTelephone
    /\ lastCaller \in DOMAIN rounds[last.code].participants

\* C34: in a telephone round, a download of "assigned" by the participant at
\* sorted position i >= 1 serves the file of the submission of the participant
\* at position i-1 once that submission exists; for the participant at
\* position 0 it is answered 404.
C34_AssignedIsPredecessorsFile ==
    lastAssignedDownload =>
      LET round == rounds[last.code]
          ids == participantIDs(round)
          pos == currentPos(ids, lastCaller)
      IN /\ pos = 0 => last.status = 404
         /\ (pos >= 1 /\ ids[pos] \in DOMAIN round.submissions) =>
              /\ last.status = 200
              /\ last.out.file = round.submissions[ids[pos]].filename

\* C34 witness: the participant at position 2 has downloaded "assigned" and got
\* the file the participant at position 1 submitted
C34_Witness ==
    /\ lastAssignedDownload
    /\ currentPos(participantIDs(rounds[last.code]), lastCaller) = 2
    /\ last.status = 200
    /\ last.out.file =
         rounds[last.code].submissions[participantIDs(rounds[last.code])[2]].filename

\* C35: in a telephone round, a participant who is not the host can download
\* only the file assigned to them (the submission whose assignedToId is their
\* id, or the seed for sorted position 1): a download naming the filename of
\* any other submission is refused.
C35_OnlyAssignedFile ==
    (/\ last.op = "download"
     /\ last.fault = "none"
     /\ last.code \in DOMAIN rounds
     /\ rounds[last.code].mode = ModeTelephone
     /\ lastCaller \in DOMAIN rounds[last.code].participants
     /\ lastCaller # rounds[last.code].hostId
     /\ \E q \in DOMAIN rounds[last.code].submissions :
           /\ q # lastCaller
           /\ rounds[last.code].submissions[q].filename = last.arg
           /\ rounds[last.code].submissions[q].assignedToId # lastCaller
           /\ ~(/\ currentPos(participantIDs(rounds[last.code]), lastCaller) = 1
                /\ rounds[last.code].sampleFileId = last.arg))
    => /\ last.status # 200
       /\ last.out = <<>>

\* C36: a download by a non-participant that allowGuestDownload permits, for a
\* file that exists, completes without a runtime fault.
C36_GuestDownloadCompletes ==
    (/\ last.op = "download"
     /\ last.fault = "none"
     /\ lastByOutsider
     /\ lastCaller # NoId
     /\ rounds[last.code].allowGuestDownload
     /\ last.out # <<>>)
    => /\ last.error # "panic"
       /\ last.out.complete

\* this step answers a request of kind op on a stored round that came with a
\* session issued for another join code
ServedAcross(op) ==
    /\ Served(op)
    /\ last'.code \in DOMAIN rounds
    /\ last'.cookie \in DOMAIN sessions
    /\ sessions[last'.cookie].roundCode # last'.code

\* C37: a session issued for round A never lets its holder change the state,
\* sample or submissions of a different round B, or export B; the only effect
\* such a holder can have on B is to join it as a new participant.
C37_SessionBoundToItsRound ==
    [][/\ (ServedAcross("state") \/ ServedAcross("upload") \/ ServedAcross("sample")
             \/ ServedAcross("export"))
          => /\ last'.success # "true"
             /\ last'.out = <<>>
             /\ rounds' = rounds
             /\ files' = files
       /\ ServedAcross("join")
          => LET old == rounds[last'.code]
                 new == rounds'[last'.code]
             IN /\ \A c \in DOMAIN rounds \ {last'.code} : rounds'[c] = rounds[c]
                /\ files' = files
                /\ \/ new = old
                   \/ /\ last'.success = "true"
                      /\ last'.out.participantId \notin DOMAIN old.participants
                      /\ last'.out.participantId
                           # sessions[last'.cookie].participantId
                      /\ new = [old EXCEPT
                                  !.participants =
                                     Put(old.participants, last'.out.participantId,
                                         Participant(last'.out.participantId,
                                                     last'.arg, FALSE))]]_vars

\* C37 witness: the host of round K2 sent an upload to the active round K1 with
\* the K2 session and was refused as no participant of K1
C37_Witness ==
    /\ last.op = "upload"
    /\ last.code \in DOMAIN rounds
    /\ rounds[last.code].state = StateActive
    /\ last.cookie \in DOMAIN sessions
    /\ sessions[last.cookie].roundCode # last.code
    /\ sessions[last.cookie].roundCode \in DOMAIN rounds
    /\ rounds[sessions[last.cookie].roundCode].hostId = lastCaller
    /\ last.success = "false"
    /\ last.error = "You are not a participant in this round"

\* C38: while a round record is live, every session issued for it by a
\* successful create or join still resolves: no session leaves the store before
\* the round it belongs to, also when later saves have extended the round's
\* expiration.
C38_SessionLivesWithRound ==
    [][\A t \in DOMAIN sessions :
          (/\ sessions[t].roundCode \in DOMAIN rounds'
           /\ sessions[t].participantId
                \in DOMAIN rounds'[sessions[t].roundCode].participants)
          => /\ t \in DOMAIN sessions'
             /\ sessions'[t] = sessions[t]]_vars

\* C39: a create request leaves its code-generation loop only with a code that
\* has no live round, so it does not get past the loop while every code is in
\* use; under fair random generation a request in the loop gets its answer
\* unless every code comes to be in use.
C39_LoopLeavesOnFreeCode ==
    /\ [][\A i \in DOMAIN inflight :
             (inflight[i].pc # "loaded" /\ inflight'[i].pc = "loaded"
                /\ inflight'[i].op = "create")
             => inflight'[i].code \notin DOMAIN rounds]_vars
    /\ \A i \in {1, 2} :
          (inflight[i].pc = "looping")
             ~> (inflight[i].pc = "done" \/ Codes \subseteq DOMAIN rounds)

\* the upper-case letters and the digits
UpperAlnum == {"A", "B", "C", "D", "E", "F", "G", "H", "I", "J", "K", "L", "M", "N",
             "O", "P", "Q", "R", "S", "T", "U", "V", "W", "X", "Y", "Z", "0", "1", "2",
             "3", "4", "5", "6", "7", "8", "9"}

\* C40: generateJoinCode returns a string of exactly 6 characters, each in A-Z
\* or 0-9, for every sequence of random bytes and also when the random source
\* reports an error.
C40_SixUpperAlnum ==
    last.op = "generateJoinCode" =>
       /\ Len(last.out) = 6
       /\ \A i \in 1..Len(last.out) : last.out[i] \in UpperAlnum
       /\ \A byte \in 0..255 : codeChar(byte) \in UpperAlnum

\* C40 witness: the random source failed after one byte, 255; the code is "D"
\* followed by five times "A"
C40_Witness ==
    /\ last.op = "generateJoinCode"
    /\ last.fault = "randRead"
    /\ last.status = 1
    /\ last.arg[1] = 255
    /\ last.out = <<"D", "A", "A", "A", "A", "A">>

====
